---------------------------- MODULE Spec2Model ----------------------------
(***************************************************************************)
(* A model of oxidized-mtbl: the block reader (block.rs), the varint       *)
(* decoder (varint.rs), the table reader (reader.rs, metadata.rs), the     *)
(* block builder (block_builder.rs), the table writer (writer.rs) and the  *)
(* merger (merger.rs).                                                     *)
(*                                                                         *)
(* Bytes are naturals 0..255 and byte strings are sequences of them.  Rust *)
(* offsets are 0-based: byte i of a slice d is d[i + 1] here.  A panic     *)
(* (failed assert!, slice index out of range, unwrap of None, panic!) is   *)
(* an outcome of the call, recorded in the result of the operator.         *)
(***************************************************************************)
EXTENDS Integers, Sequences, FiniteSets, TLC

(***************************************************************************)
(* Bounds of the model.                                                    *)
(***************************************************************************)
MaxKeyLen == 2
MaxEntries == 3

(***************************************************************************)
(* Program constants.                                                      *)
(***************************************************************************)
METADATA_SIZE == 512
MTBL_MAGIC_V1 == 2005165686
MTBL_MAGIC == 1297367628
DEFAULT_BLOCK_RESTART_INTERVAL == 16
DEFAULT_BLOCK_SIZE == 8192
MIN_BLOCK_SIZE == 1024

Min(a, b) == IF a < b THEN a ELSE b
Max(a, b) == IF a < b THEN b ELSE a

\* x > u32::max_value(), for x below 2^31 (no number of the model reaches it).
GtU32Max(x) == (x \div 65536) > 65535

\* &d[from..from + n]
Slice(d, from, n) == SubSeq(d, from + 1, from + n)

(***************************************************************************)
(* Byte-string order.  Rust's Ord on [u8] and bytes_compare (lib.rs) are   *)
(* the unsigned lexicographic order.                                       *)
(***************************************************************************)
CommonPrefix(a, b) ==
    LET n == Min(Len(a), Len(b))
    IN  IF \A i \in 1..n : a[i] = b[i] THEN n
        ELSE (CHOOSE i \in 1..n : a[i] # b[i] /\ \A j \in 1..(i - 1) : a[j] = b[j]) - 1

bytes_compare(a, b) ==
    LET d == CommonPrefix(a, b)
    IN  IF d < Len(a) /\ d < Len(b) THEN (IF a[d + 1] < b[d + 1] THEN -1 ELSE 1)
        ELSE IF Len(a) < Len(b) THEN -1
        ELSE IF Len(a) = Len(b) THEN 0
        ELSE 1

BytesLt(a, b) == bytes_compare(a, b) < 0
BytesLe(a, b) == bytes_compare(a, b) <= 0

starts_with(key, p) == Len(p) <= Len(key) /\ SubSeq(key, 1, Len(p)) = p

(***************************************************************************)
(* Fixed-width little-endian integers (byteorder::LittleEndian).  A u64    *)
(* whose value does not fit the model's integers reads as BigU64.          *)
(***************************************************************************)
BigU64 == 2147483647

LE32(n) == << n % 256, (n \div 256) % 256, (n \div 65536) % 256, (n \div 16777216) % 256 >>
LE64(n) == LE32(n) \o << 0, 0, 0, 0 >>
BE16(n) == << (n \div 256) % 256, n % 256 >>

read_u32(d, off) ==
    IF d[off + 4] >= 128 THEN BigU64
    ELSE d[off + 1] + 256 * d[off + 2] + 65536 * d[off + 3] + 16777216 * d[off + 4]

read_u64(d, off) ==
    IF \E i \in 5..8 : d[off + i] # 0 THEN BigU64 ELSE read_u32(d, off)

read_u16_be(d, off) == 256 * d[off + 1] + d[off + 2]

(***************************************************************************)
(* varint.rs.  A slice argument &data[from..lim] is given as (d, from,     *)
(* lim), offsets into the byte string d that holds it.                     *)
(***************************************************************************)
\* varint_length_packed(&data[from..from + n])
varint_length_packed(d, from, n) ==
    LET stop == { i \in 0..(n - 1) : d[from + i + 1] < 128 }
        i == IF stop = {} THEN n ELSE CHOOSE j \in stop : \A k \in stop : j <= k
    IN  IF i = n THEN 0 ELSE i + 1

\* varint_decode32(&data[from..lim], &mut value) -> len; data[0] on an empty
\* slice panics.
varint_decode32(d, from, lim) ==
    LET b(i) == d[from + i + 1]
        Low(len) ==
            (b(0) % 128)
            + (IF len > 1 THEN (b(1) % 128) * 128 ELSE 0)
            + (IF len > 2 THEN (b(2) % 128) * 16384 ELSE 0)
            + (IF len > 3 THEN (b(3) % 128) * 2097152 ELSE 0)
        \* (data[4] as u32) << 28 keeps the low four bits of data[4]
        Val(len, low) ==
            IF len > 4
            THEN (IF b(4) % 16 >= 8 THEN BigU64 ELSE low + (b(4) % 16) * 268435456)
            ELSE low
        Decoded(len) == [panic |-> FALSE, val |-> Val(len, Low(len)), len |-> len]
    IN  IF lim - from <= 0 THEN [panic |-> TRUE, val |-> 0, len |-> 0]
        ELSE Decoded(varint_length_packed(d, from, Min(lim - from, 5)))

\* varint_decode64(&data[from..lim], &mut value) -> len
varint_decode64(d, from, lim) ==
    LET b(i) == d[from + i + 1]
        low == (b(0) % 128) + (b(1) % 128) * 128 + (b(2) % 128) * 16384
               + (b(3) % 128) * 2097152
        \* byte i sets a bit of the u64 at or above bit 31; the shift by 63 of
        \* the tenth byte keeps its lowest bit only
        High(i) ==
            IF i = 4 THEN b(i) % 128 >= 8
            ELSE IF i = 9 THEN b(i) % 2 = 1 ELSE b(i) % 128 # 0
        Decoded(len) ==
            IF len < 5 THEN varint_decode32(d, from, lim)
            ELSE IF \E i \in 4..(len - 1) : High(i)
                 THEN [panic |-> FALSE, val |-> BigU64, len |-> len]
                 ELSE [panic |-> FALSE, val |-> low + (b(4) % 128) * 268435456, len |-> len]
    IN  Decoded(varint_length_packed(d, from, Min(Max(lim - from, 0), 10)))

(***************************************************************************)
(* block.rs.  A Block is a view of n bytes of the byte string d that       *)
(* starts at offset start (BytesView::slice aliases the file when the      *)
(* table is not compressed); offsets inside a block are relative to start. *)
(* tag is "ok", "panic" (a failed assert!) or "overflow" (a usize          *)
(* subtraction below zero: a panic with overflow checks, a wrap without).  *)
(***************************************************************************)
\* num_restarts(data): the last four bytes, asserted to exist.
num_restarts(d, start, n) == read_u32(d, start + n - 4)

Block_init(d, start, n) ==
    IF n < 4
    THEN \* data = []; restart_offset = 0; then 0 > data.len() - 4 underflows
         [tag |-> "overflow", start |-> start, len |-> 0, restart_offset |-> 0]
    ELSE IF n < 8
    THEN [tag |-> "panic", start |-> start, len |-> n, restart_offset |-> 0]
    ELSE LET Sized(nr) ==
                 IF nr >= n \/ (1 + nr) * 4 > n
                 THEN [tag |-> "overflow", start |-> start, len |-> n, restart_offset |-> 0]
                 ELSE LET ro32 == n - (1 + nr) * 4
                          wide == GtU32Max(ro32)
                          ro == IF wide THEN n - (4 + nr * 8) ELSE ro32
                          bad == (wide /\ ~GtU32Max(ro)) \/ ro > n - 4
                      IN  [tag |-> "ok", start |-> start,
                           len |-> IF bad THEN 0 ELSE n, restart_offset |-> ro]
         IN  Sized(num_restarts(d, start, n))

\* Vec<u8> growth (alloc::raw_vec): amortised doubling, at least 8 bytes.
VecGrow(cap, need) == IF need <= cap THEN cap ELSE Max(Max(2 * cap, need), 8)

NoOffset == -1

\* BlockIter::init: two assertions, then an iterator that is not valid.
BlockIter_init(d, b) ==
    IF b.len < 8 THEN [tag |-> "panic"]
    ELSE LET Over(nr) ==
                 IF nr = 0 THEN [tag |-> "panic"]
                 ELSE [tag |-> "ok", block |-> b, restarts |-> b.restart_offset,
                       num_restarts |-> nr, current |-> b.restart_offset,
                       restart_index |-> nr, next |-> NoOffset,
                       key |-> << >>, key_cap |-> 0,
                       val_off |-> NoOffset, val_len |-> 0, panicked |-> FALSE]
         IN  Over(num_restarts(d, b.start, b.len))

\* restart_point(idx); idx < num_restarts is asserted by the callers' ranges.
restart_point(d, bi, idx) ==
    LET offset == bi.restarts + idx * 4
    IN  read_u32(d, bi.block.start + offset)

seek_to_restart_point(d, bi, idx) ==
    [bi EXCEPT !.key = << >>, !.restart_index = idx, !.next = restart_point(d, bi, idx)]

next_entry_offset(bi) == IF bi.next = NoOffset THEN 0 ELSE bi.next

\* decode_entry(data, p, limit): Err(()) when fewer than three bytes are left.
decode_entry(d, b, p, limit) ==
    IF limit - p < 3 THEN [ok |-> FALSE, panic |-> limit < p]
    ELSE LET at(i) == d[b.start + p + i + 1]
             lim == b.start + b.len
             Entry(shared, non_shared, value_length, q, panic) ==
                 [ok |-> TRUE,
                  panic |-> panic \/ (limit - q) < non_shared + value_length,
                  shared |-> shared, non_shared |-> non_shared,
                  value_length |-> value_length, p |-> q]
             Third(v1, v2, v3) ==
                 Entry(v1.val, v2.val, v3.val, p + v1.len + v2.len + v3.len,
                       v1.panic \/ v2.panic \/ v3.panic
                       \/ p + v1.len + v2.len + v3.len > limit)
             Second(v1, v2) ==
                 Third(v1, v2, varint_decode32(d, b.start + p + v1.len + v2.len, lim))
             First(v1) == Second(v1, varint_decode32(d, b.start + p + v1.len, lim))
         IN  IF at(0) < 128 /\ at(1) < 128 /\ at(2) < 128
             THEN Entry(at(0), at(1), at(2), p + 3, FALSE)
             ELSE First(varint_decode32(d, b.start + p, lim))

valid(bi) == bi.current < bi.restarts

RECURSIVE AdvanceRestartIndex(_, _, _)
\* while restart_index + 1 < num_restarts && restart_point(restart_index + 1) < current
AdvanceRestartIndex(d, bi, ri) ==
    IF ri + 1 < bi.num_restarts /\ restart_point(d, bi, ri + 1) < bi.current
    THEN AdvanceRestartIndex(d, bi, ri + 1)
    ELSE ri

\* parse_next_key: [bi, ret, panic]
parse_next_key(d, bi) ==
    LET cur == next_entry_offset(bi)
    IN  IF cur >= bi.restarts
        THEN [bi |-> [bi EXCEPT !.current = bi.restarts, !.restart_index = bi.num_restarts],
              ret |-> FALSE, panic |-> FALSE]
        ELSE LET Moved(b1) ==
                     [bi |-> [b1 EXCEPT !.restart_index =
                                  AdvanceRestartIndex(d, b1, b1.restart_index)],
                      ret |-> TRUE, panic |-> FALSE]
                 Keyed(e, key) ==
                     Moved([bi EXCEPT !.current = cur, !.key = key,
                                      !.key_cap = VecGrow(bi.key_cap, Len(key)),
                                      !.next = e.p + e.non_shared + e.value_length,
                                      !.val_off = e.p + e.non_shared,
                                      !.val_len = e.value_length])
                 Parsed(e) ==
                     IF ~e.ok \/ e.panic \/ bi.key_cap < e.shared
                     THEN [bi |-> [bi EXCEPT !.current = cur, !.panicked = TRUE],
                           ret |-> FALSE, panic |-> TRUE]
                     ELSE Keyed(e, SubSeq(bi.key, 1, Min(e.shared, Len(bi.key)))
                                   \o Slice(d, bi.block.start + e.p, e.non_shared))
             IN  Parsed(decode_entry(d, bi.block, cur, bi.restarts))

seek_to_first(d, bi) == parse_next_key(d, seek_to_restart_point(d, bi, 0)).bi

RECURSIVE SeekRestart(_, _, _, _, _)
\* The binary search of seek: the restart index to scan from; -1 when a
\* visited restart entry has shared # 0 (seek returns without moving); -2
\* when decode_entry(..).unwrap() panics.
SeekRestart(d, bi, target, left, right) ==
    IF ~(left < right) THEN left
    ELSE LET Probe(mid, e) ==
                 IF ~e.ok \/ e.panic THEN -2
                 ELSE IF e.shared # 0 THEN -1
                 ELSE IF bytes_compare(Slice(d, bi.block.start + e.p, e.non_shared),
                                       target) < 0
                      THEN SeekRestart(d, bi, target, mid, right)
                      ELSE SeekRestart(d, bi, target, left, mid - 1)
             At(mid) ==
                 \* region_offset = restart_point(mid)
                 Probe(mid, decode_entry(d, bi.block, restart_point(d, bi, mid),
                                         bi.restarts))
         IN  At((left + right + 1) \div 2)

RECURSIVE SeekLinear(_, _, _)
\* loop { if !parse_next_key() { return } if key >= target { return } }
SeekLinear(d, bi, target) ==
    LET Step(r) ==
            IF ~r.ret THEN r.bi
            ELSE IF bytes_compare(r.bi.key, target) >= 0 THEN r.bi
            ELSE SeekLinear(d, r.bi, target)
    IN  Step(parse_next_key(d, bi))

\* A seek without the binary search: the scan starts at the last restart point.
SeekFromLastRestart(d, bi, target) ==
    SeekLinear(d, seek_to_restart_point(d, bi, bi.num_restarts - 1), target)

\* BlockIter::seek(target)
BlockIter_seek(d, bi, target) ==
    LET From(left) ==
            IF left = -2 THEN [bi EXCEPT !.panicked = TRUE]
            ELSE IF left = -1 THEN bi
            ELSE SeekLinear(d, seek_to_restart_point(d, bi, left), target)
    IN  From(SeekRestart(d, bi, target, 0, bi.num_restarts - 1))

\* BlockIter::next: the iterator after the call
BlockIter_next(d, bi) == IF ~valid(bi) THEN bi ELSE parse_next_key(d, bi).bi

NoEntry == [some |-> FALSE, key |-> << >>, val |-> << >>]

\* BlockIter::get
BlockIter_get(d, bi) ==
    IF ~valid(bi) THEN NoEntry
    ELSE [some |-> TRUE, key |-> bi.key,
          val |-> Slice(d, bi.block.start + bi.val_off, bi.val_len)]

(***************************************************************************)
(* metadata.rs and reader.rs.  The model is of the build without the cargo *)
(* features: no checksum is verified and only CompressionType::None has a  *)
(* backend (compression.rs).  A result is a record whose tag is "Ok", the  *)
(* name of the MtblError returned, "Io", or "panic" / "overflow".          *)
(***************************************************************************)
CompressionNone == 0

\* CompressionType::from_u64
CompressionType_from_u64(v) == IF v \in 0..5 THEN [some |-> TRUE, v |-> v] ELSE [some |-> FALSE, v |-> 0]

\* Metadata::read_from_bytes(&data[off..off + 512])
Metadata_read_from_bytes(d, off) ==
    LET Read(magic, ca) ==
        IF magic # MTBL_MAGIC_V1 /\ magic # MTBL_MAGIC THEN [tag |-> "InvalidFormatVersion"]
        ELSE IF ~ca.some THEN [tag |-> "InvalidCompressionAlgorithm"]
        ELSE [tag |-> "Ok",
              file_version |-> IF magic = MTBL_MAGIC_V1 THEN "FormatV1" ELSE "FormatV2",
              index_block_offset |-> read_u64(d, off),
              data_block_size |-> read_u64(d, off + 8),
              compression_algorithm |-> ca.v,
              count_entries |-> read_u64(d, off + 24),
              count_data_blocks |-> read_u64(d, off + 32),
              bytes_data_blocks |-> read_u64(d, off + 40),
              bytes_index_block |-> read_u64(d, off + 48),
              bytes_keys |-> read_u64(d, off + 56),
              bytes_values |-> read_u64(d, off + 64)]
    IN  Read(read_u32(d, off + METADATA_SIZE - 4),
             CompressionType_from_u64(read_u64(d, off + 16)))

\* Block::init(..).ok_or(MtblError::InvalidBlock): a block whose data init
\* emptied is no block.
BlockOrInvalid(b) ==
    IF b.tag # "ok" THEN [tag |-> b.tag]
    ELSE IF b.len = 0 THEN [tag |-> "InvalidBlock"]
    ELSE [tag |-> "Ok", block |-> [start |-> b.start, len |-> b.len,
                                   restart_offset |-> b.restart_offset]]

\* The wrapper of a block at offset: [tag, len_len, len]
WrapperLength(d, file_version, offset) ==
    IF file_version = "FormatV1"
    THEN (IF offset + 4 > Len(d) THEN [tag |-> "panic"]
          ELSE [tag |-> "Ok", len_len |-> 4, len |-> read_u32(d, offset)])
    ELSE LET Decoded(v) ==
                 IF v.panic THEN [tag |-> "panic"]
                 ELSE [tag |-> "Ok", len_len |-> v.len, len |-> v.val]
         IN  Decoded(varint_decode64(d, offset, Len(d)))

\* ReaderBuilder::read(data)
ReaderBuilder_read(d) ==
    IF Len(d) < METADATA_SIZE THEN [tag |-> "InvalidMetadataSize"]
    ELSE LET Indexed(metadata, index) ==
                 IF index.tag # "Ok" THEN [tag |-> index.tag]
                 ELSE [tag |-> "Ok", metadata |-> metadata, index |-> index.block]
             Wrapped(metadata, w) ==
                 IF w.tag # "Ok" THEN [tag |-> w.tag]
                 ELSE LET start == metadata.index_block_offset + w.len_len + 4
                      IN  IF start + w.len > Len(d) THEN [tag |-> "panic"]
                          ELSE Indexed(metadata, BlockOrInvalid(Block_init(d, start, w.len)))
             With(metadata) ==
                 IF metadata.tag # "Ok" THEN [tag |-> metadata.tag]
                 ELSE IF Len(d) - METADATA_SIZE - 13 < 0 THEN [tag |-> "overflow"]
                 ELSE IF metadata.index_block_offset > Len(d) - METADATA_SIZE - 13
                      THEN [tag |-> "InvalidIndexBlockOffset"]
                 ELSE Wrapped(metadata, WrapperLength(d, metadata.file_version,
                                                      metadata.index_block_offset))
         IN  With(Metadata_read_from_bytes(d, Len(d) - METADATA_SIZE))

\* decompress(type_, data) of the build without backends
decompress(type_) == IF type_ = CompressionNone THEN "Borrowed" ELSE "Io"

\* Reader::block(offset): [tag, block]
Reader_block(d, r, offset) ==
    IF ~(offset < Len(d)) THEN [tag |-> "panic"]
    ELSE LET Wrapped(w) ==
                 IF w.tag # "Ok" THEN [tag |-> w.tag]
                 ELSE LET raw_start == offset + w.len_len + 4
                      IN  IF raw_start + w.len > Len(d) THEN [tag |-> "panic"]
                          ELSE IF decompress(r.metadata.compression_algorithm) = "Io"
                               THEN [tag |-> "Io"]
                          ELSE BlockOrInvalid(Block_init(d, raw_start, w.len))
         IN  Wrapped(WrapperLength(d, r.metadata.file_version, offset))

\* Reader::block_at_index(index_iter)
Reader_block_at_index(d, r, index_iter) ==
    IF ~valid(index_iter) THEN [tag |-> "InvalidBlock"]
    ELSE LET voff == index_iter.block.start + index_iter.val_off
             At(v) == IF v.panic THEN [tag |-> "panic"] ELSE Reader_block(d, r, v.val)
         IN  At(varint_decode64(d, voff, voff + index_iter.val_len))

\* The iterator built by new and new_from once index_iter is placed.
IterOver(d, r, index_iter, seekKey, fromStart) ==
    LET Placed(bi0) ==
            IF bi0.tag # "ok" THEN [tag |-> "panic"]
            ELSE [tag |-> "Ok", block_offset |-> 0,
                  bi |-> IF fromStart THEN seek_to_first(d, bi0)
                         ELSE BlockIter_seek(d, bi0, seekKey),
                  index_iter |-> index_iter, k |-> << >>,
                  first |-> TRUE, valid |-> TRUE, it_type |-> "Iter"]
        Loaded(b) == IF b.tag # "Ok" THEN [tag |-> b.tag] ELSE Placed(BlockIter_init(d, b.block))
    IN  Loaded(Reader_block_at_index(d, r, index_iter))

\* ReaderIntoIter::new(r)
ReaderIntoIter_new(d, r) ==
    LET From(ii) ==
            IF ii.tag # "ok" THEN [tag |-> "panic"]
            ELSE IterOver(d, r, seek_to_first(d, ii), << >>, TRUE)
    IN  From(BlockIter_init(d, r.index))

\* ReaderIntoIter::new_from(r, key)
ReaderIntoIter_new_from(d, r, key) ==
    LET From(ii) ==
            IF ii.tag # "ok" THEN [tag |-> "panic"]
            ELSE IterOver(d, r, BlockIter_seek(d, ii, key), key, FALSE)
    IN  From(BlockIter_init(d, r.index))

WithFilter(it, k, it_type) ==
    IF it.tag # "Ok" THEN it ELSE [it EXCEPT !.k = k, !.it_type = it_type]

ReaderIntoIter_new_get(d, r, key) == WithFilter(ReaderIntoIter_new_from(d, r, key), key, "Get")

ReaderIntoIter_new_get_prefix(d, r, prefix) ==
    WithFilter(ReaderIntoIter_new_from(d, r, prefix), prefix, "GetPrefix")

ReaderIntoIter_new_get_range(d, r, start, end) ==
    WithFilter(ReaderIntoIter_new_from(d, r, start), end, "GetRange")

\* The filter at the end of next: whether the entry leaves the iterator valid.
FilterKeeps(it, key) ==
    CASE it.it_type = "Iter" -> TRUE
      [] it.it_type = "Get" -> key = it.k
      [] it.it_type = "GetPrefix" -> Len(it.k) <= Len(key) /\ starts_with(key, it.k)
      [] it.it_type = "GetRange" -> ~(bytes_compare(key, it.k) > 0)

\* ReaderIntoIter::next: [it, item, panic]
ReaderIntoIter_next(d, r, it) ==
    IF ~it.valid THEN [it |-> it, item |-> NoEntry, panic |-> FALSE]
    ELSE LET Filtered(itx, e) ==
                 IF FilterKeeps(itx, e.key)
                 THEN [it |-> itx, item |-> e, panic |-> FALSE]
                 ELSE [it |-> [itx EXCEPT !.valid = FALSE], item |-> NoEntry, panic |-> FALSE]
             \* the first entry of the next block
             Entered(it2, bi2, e2) ==
                 IF ~e2.some
                 THEN [it |-> [it2 EXCEPT !.bi = bi2, !.valid = FALSE],
                       item |-> NoEntry, panic |-> FALSE]
                 ELSE Filtered([it2 EXCEPT !.bi = bi2, !.valid = TRUE], e2)
             Placed(it2, bi2) == Entered(it2, bi2, BlockIter_get(d, bi2))
             Inited(it2, bi0) ==
                 IF bi0.tag # "ok" THEN [it |-> it2, item |-> NoEntry, panic |-> TRUE]
                 ELSE Placed(it2, seek_to_first(d, bi0))
             \* block_at_index(&self.index_iter).unwrap()
             Loaded(it2, b) ==
                 IF b.tag # "Ok" THEN [it |-> it2, item |-> NoEntry, panic |-> TRUE]
                 ELSE Inited(it2, BlockIter_init(d, b.block))
             \* self.valid = false; if !self.index_iter.next() { return None }
             Advanced(it2) ==
                 IF ~valid(it2.index_iter) THEN [it |-> it2, item |-> NoEntry, panic |-> FALSE]
                 ELSE Loaded(it2, Reader_block_at_index(d, r, it2.index_iter))
             Got(it1, e1) ==
                 IF e1.some THEN Filtered(it1, e1)
                 ELSE Advanced([it1 EXCEPT !.valid = FALSE,
                                           !.index_iter = BlockIter_next(d, it1.index_iter)])
             Stepped(bi1) == Got([it EXCEPT !.bi = bi1, !.first = FALSE], BlockIter_get(d, bi1))
         IN  Stepped(IF ~it.first THEN BlockIter_next(d, it.bi) ELSE it.bi)

\* ReaderIntoIter::seek(key): [it, tag]
ReaderIntoIter_seek(d, r, it, key) ==
    LET Placed(it1, bi0) ==
            IF bi0.tag # "ok" THEN [it |-> it1, tag |-> "panic"]
            ELSE [it |-> [it1 EXCEPT \* seeks to the index key, not to the caller's key
                                     !.bi = BlockIter_seek(d, bi0, it1.index_iter.key),
                                     !.first = TRUE, !.valid = TRUE],
                  tag |-> "Ok"]
        Loaded(it1, b) ==
            IF b.tag # "Ok" THEN [it |-> it1, tag |-> b.tag]
            ELSE Placed(it1, BlockIter_init(d, b.block))
        Offset(it1, v) ==
            IF v.panic THEN [it |-> it1, tag |-> "panic"]
            ELSE IF it1.block_offset # v.val
                 THEN Loaded([it1 EXCEPT !.block_offset = v.val], Reader_block(d, r, v.val))
                 ELSE Placed(it1, it1.bi)
        Sought(ii) ==
            IF ~valid(ii) THEN [it |-> [it EXCEPT !.index_iter = ii, !.valid = FALSE], tag |-> "Ok"]
            ELSE Offset([it EXCEPT !.index_iter = ii],
                        varint_decode64(d, ii.block.start + ii.val_off,
                                        ii.block.start + ii.val_off + ii.val_len))
    IN  Sought(BlockIter_seek(d, it.index_iter, key))

\* Reader::get(key): [tag, some, val]
Reader_get(d, r, key) ==
    LET First(n) ==
            IF n.panic THEN [tag |-> "panic", some |-> FALSE, val |-> << >>]
            ELSE IF ~n.item.some THEN [tag |-> "Ok", some |-> FALSE, val |-> << >>]
            ELSE \* ReaderIntoGet::new(iter.bi): the value range of the block iterator
                 [tag |-> "Ok", some |-> n.it.bi.val_off # NoOffset,
                  val |-> Slice(d, n.it.bi.block.start + n.it.bi.val_off, n.it.bi.val_len)]
        Of(iter) ==
            IF iter.tag # "Ok" THEN [tag |-> iter.tag, some |-> FALSE, val |-> << >>]
            ELSE First(ReaderIntoIter_next(d, r, iter))
    IN  Of(ReaderIntoIter_new_get(d, r, key))

(***************************************************************************)
(* The table file format: the byte strings a reader is opened on.  A table *)
(* is described by its data blocks (each a sequence of entries with        *)
(* ascending keys), one index key per block and the restart interval.      *)
(***************************************************************************)
RECURSIVE FmtVarint(_)
FmtVarint(n) == IF n < 128 THEN << n >> ELSE << 128 + (n % 128) >> \o FmtVarint(n \div 128)

\* varint(shared) varint(non_shared) varint(value_len) key_suffix value
FmtEntry(shared, key, val) ==
    FmtVarint(shared) \o FmtVarint(Len(key) - shared) \o FmtVarint(Len(val))
    \o SubSeq(key, shared + 1, Len(key)) \o val

RECURSIVE FmtBlockFrom(_, _, _, _, _, _, _)
\* The block of entries es[i..]: [buf, restarts]
FmtBlockFrom(es, i, interval, counter, last_key, buf, restarts) ==
    IF i > Len(es) THEN [buf |-> buf, restarts |-> restarts]
    ELSE LET restart == ~(counter < interval)
             shared == IF restart THEN 0 ELSE CommonPrefix(last_key, es[i].key)
         IN  FmtBlockFrom(es, i + 1, interval,
                          IF restart THEN 1 ELSE counter + 1, es[i].key,
                          buf \o FmtEntry(shared, es[i].key, es[i].val),
                          IF restart THEN Append(restarts, Len(buf)) ELSE restarts)

RECURSIVE FmtRestarts(_, _)
FmtRestarts(restarts, i) ==
    IF i > Len(restarts) THEN << >> ELSE LE32(restarts[i]) \o FmtRestarts(restarts, i + 1)

\* entries, restart offsets (4 bytes each), restart count
FmtBlock(es, interval) ==
    LET b == FmtBlockFrom(es, 1, interval, 0, << >>, << >>, << 0 >>)
    IN  b.buf \o FmtRestarts(b.restarts, 1) \o LE32(Len(b.restarts))

\* varint(len) crc payload; the crc is not read by the build that is modelled
FmtWrap(payload) == FmtVarint(Len(payload)) \o LE32(0) \o payload

Zeros(n) == [i \in 1..n |-> 0]

FmtTrailer(m) ==
    LE64(m.index_block_offset) \o LE64(m.data_block_size)
    \o LE64(m.compression_algorithm) \o LE64(m.count_entries)
    \o LE64(m.count_data_blocks) \o LE64(m.bytes_data_blocks)
    \o LE64(m.bytes_index_block) \o LE64(m.bytes_keys) \o LE64(m.bytes_values)
    \o Zeros(METADATA_SIZE - 4 - 72) \o LE32(MTBL_MAGIC)

RECURSIVE FmtDataBlocks(_, _, _, _, _)
\* The wrapped data blocks from block i on: [bytes, offsets]
FmtDataBlocks(blocks, i, interval, bytes, offsets) ==
    IF i > Len(blocks) THEN [bytes |-> bytes, offsets |-> offsets]
    ELSE FmtDataBlocks(blocks, i + 1, interval,
                       bytes \o FmtWrap(FmtBlock(blocks[i], interval)),
                       Append(offsets, Len(bytes)))

RECURSIVE SumLen(_, _, _)
SumLen(es, i, f) == IF i > Len(es) THEN 0 ELSE Len(es[i][f]) + SumLen(es, i + 1, f)

RECURSIVE Flatten(_, _)
Flatten(blocks, i) == IF i > Len(blocks) THEN << >> ELSE blocks[i] \o Flatten(blocks, i + 1)

FmtTable(t) ==
    LET dbs == FmtDataBlocks(t.blocks, 1, t.interval, << >>, << >>)
        ies == [i \in 1..Len(t.blocks) |-> [key |-> t.seps[i], val |-> FmtVarint(dbs.offsets[i])]]
        index == FmtWrap(FmtBlock(ies, t.interval))
        es == Flatten(t.blocks, 1)
    IN  dbs.bytes \o index
        \o FmtTrailer([index_block_offset |-> Len(dbs.bytes),
                       data_block_size |-> DEFAULT_BLOCK_SIZE,
                       compression_algorithm |-> CompressionNone,
                       count_entries |-> Len(es),
                       count_data_blocks |-> Len(t.blocks),
                       bytes_data_blocks |-> Len(dbs.bytes),
                       bytes_index_block |-> Len(index),
                       bytes_keys |-> SumLen(es, 1, "key"),
                       bytes_values |-> SumLen(es, 1, "val")])

(***************************************************************************)
(* The tables of the model: every set of at most MaxEntries keys over the  *)
(* alphabet, cut into data blocks in every way, with every index key that  *)
(* separates two blocks.                                                   *)
(***************************************************************************)
Alphabet == {97, 98}

RECURSIVE KeysOfLen(_)
KeysOfLen(n) ==
    IF n = 0 THEN { << >> }
    ELSE { Append(k, c) : k \in KeysOfLen(n - 1), c \in Alphabet }

Keys == UNION { KeysOfLen(n) : n \in 0..MaxKeyLen }

Intervals == {1, 2, DEFAULT_BLOCK_RESTART_INTERVAL}

RECURSIVE SortKeys(_)
\* The keys of a set in ascending order
SortKeys(S) ==
    IF S = {} THEN << >>
    ELSE LET m == CHOOSE k \in S : \A o \in S : BytesLe(k, o)
         IN  << m >> \o SortKeys(S \ {m})

\* The value stored with a key in the table of the given salt.
ValueOf(key, salt) == IF Len(key) = 1 THEN << >> ELSE << 200 + salt >> \o key

EntriesOf(S, salt) ==
    LET ks == SortKeys(S) IN [i \in 1..Len(ks) |-> [key |-> ks[i], val |-> ValueOf(ks[i], salt)]]

RECURSIVE CutAt(_, _, _)
\* es cut after the positions of cuts (a set of 1..Len(es)-1), from position lo
CutAt(es, cuts, lo) ==
    IF lo > Len(es) THEN << >>
    ELSE LET later == { c \in cuts : c >= lo }
             hi == IF later = {} THEN Len(es)
                   ELSE CHOOSE c \in later : \A o \in later : c <= o
         IN  << SubSeq(es, lo, hi) >> \o CutAt(es, cuts, hi + 1)

\* The keys that may stand in the index for block i of blocks.
SeparatorsOf(blocks, i) ==
    LET last == blocks[i][Len(blocks[i])].key
    IN  IF i = Len(blocks) THEN { last }
        ELSE { s \in Keys : BytesLe(last, s) /\ BytesLt(s, blocks[i + 1][1].key) }

TablesOf(keySets, salt) ==
    UNION { UNION { { [blocks |-> blocks, seps |-> seps, interval |-> iv] :
                        seps \in { q \in [1..Len(blocks) -> Keys] :
                                     \A i \in 1..Len(blocks) : q[i] \in SeparatorsOf(blocks, i) },
                        iv \in Intervals } :
                    blocks \in { CutAt(EntriesOf(S, salt), cuts, 1) :
                                   cuts \in SUBSET (1..(Cardinality(S) - 1)) } } :
            S \in keySets }

KeySets == { S \in SUBSET Keys : Cardinality(S) <= MaxEntries }

(***************************************************************************)
(* block_builder.rs                                                        *)
(***************************************************************************)
\* BlockBuilder::new(block_restart_interval)
BlockBuilder_new(block_restart_interval) ==
    [block_restart_interval |-> block_restart_interval, buf |-> << >>,
     last_key |-> << >>, restarts |-> << 0 >>, finished |-> FALSE, counter |-> 0]

\* BlockBuilder::reset
BlockBuilder_reset(bb) ==
    [bb EXCEPT !.buf = << >>, !.last_key = << >>, !.restarts = << 0 >>,
               !.finished = FALSE, !.counter = 0]

\* BlockBuilder::is_emtpy
is_emtpy(bb) == bb.buf = << >>

\* BlockBuilder::current_size_estimate
current_size_estimate(bb) ==
    IF GtU32Max(Len(bb.buf))
    THEN Len(bb.buf) + (Len(bb.restarts) * 8) + 4
    ELSE Len(bb.buf) + ((Len(bb.restarts) * 8) \div 2) + 4

\* A write_u32 that appends the four bytes to the vector.
write_u32_appended(buf, n) == [panic |-> FALSE, buf |-> buf \o LE32(n)]

\* LittleEndian::write_u32(&mut self.buf, n): stores n in the first four bytes
\* of the slice and panics on a slice shorter than that.
write_u32(buf, n) ==
    IF Len(buf) < 4 THEN [panic |-> TRUE, buf |-> buf]
    ELSE [panic |-> FALSE, buf |-> LE32(n) \o SubSeq(buf, 5, Len(buf))]

\* BlockBuilder::add(key, val): [bb, panic]
BlockBuilder_add(bb, key, val) ==
    IF ~(bb.counter <= bb.block_restart_interval) \/ bb.finished
    THEN [bb |-> bb, panic |-> TRUE]
    ELSE LET sharing == bb.counter < bb.block_restart_interval
             shared == IF sharing THEN CommonPrefix(bb.last_key, key) ELSE 0
             bb1 == IF sharing THEN bb
                    ELSE [bb EXCEPT !.restarts = Append(@, Len(bb.buf)), !.counter = 0]
             non_shared == Len(key) - shared
             w1 == write_u32(bb1.buf, shared)
             w2 == write_u32(w1.buf, non_shared)
             w3 == write_u32(w2.buf, Len(val))
         IN  IF w1.panic \/ w2.panic \/ w3.panic THEN [bb |-> bb1, panic |-> TRUE]
             ELSE [bb |-> [bb1 EXCEPT !.buf = w3.buf \o SubSeq(key, shared + 1, Len(key)) \o val,
                                      !.last_key = key,
                                      !.counter = @ + 1],
                   panic |-> FALSE]

RECURSIVE WriteRestarts(_, _, _, _)
\* The loop of finish over self.restarts: every write goes to the head of buf.
WriteRestarts(buf, restarts, i, restart64) ==
    IF i > Len(restarts) THEN [panic |-> FALSE, buf |-> buf]
    ELSE IF restart64
         THEN (IF Len(buf) < 8 THEN [panic |-> TRUE, buf |-> buf]
               ELSE WriteRestarts(LE64(restarts[i]) \o SubSeq(buf, 9, Len(buf)),
                                  restarts, i + 1, restart64))
         ELSE LET w1 == write_u32(buf, restarts[i])
              IN  IF w1.panic THEN w1 ELSE WriteRestarts(w1.buf, restarts, i + 1, restart64)

\* BlockBuilder::finish: [bb, panic, content]
BlockBuilder_finish(bb) ==
    LET restart64 == GtU32Max(Len(bb.buf))
        Counted(r, c) ==
            IF r.panic \/ c.panic THEN [bb |-> bb, panic |-> TRUE, content |-> << >>]
            ELSE [bb |-> [bb EXCEPT !.finished = TRUE, !.buf = << >>],
                  panic |-> FALSE, content |-> c.buf]
        Restarted(r) == Counted(r, write_u32(r.buf, Len(bb.restarts)))
    IN  Restarted(WriteRestarts(bb.buf, bb.restarts, 1, restart64))

(***************************************************************************)
(* writer.rs.  A panic unwinds out of the call and leaves the fields the   *)
(* call had assigned before it.                                            *)
(***************************************************************************)
\* compress(type_, level, data) of the build without backends
compress(type_) == IF type_ = CompressionNone THEN "Borrowed" ELSE "Io"

\* WriterBuilder::block_size, block_restart_interval, compression_type, memory
WriterBuilder_build(block_size, block_restart_interval, compression_type) ==
    [writer |-> << >>,
     metadata |-> [file_version |-> "FormatV2", index_block_offset |-> 0,
                   data_block_size |-> Max(block_size, MIN_BLOCK_SIZE),
                   compression_algorithm |-> compression_type,
                   count_entries |-> 0, count_data_blocks |-> 0,
                   bytes_data_blocks |-> 0, bytes_index_block |-> 0,
                   bytes_keys |-> 0, bytes_values |-> 0],
     compression_type |-> compression_type,
     last_offset |-> 0, pending_offset |-> 0, last_key |-> << >>,
     data |-> BlockBuilder_new(block_restart_interval),
     index |-> BlockBuilder_new(block_restart_interval),
     pending_index_entry |-> FALSE]

\* write_block(.., block) on the builder w[which]: [w, tag].  The call of
\* varint_encode64 that follows compress is unimplemented!(), so no call
\* returns Ok.
write_block(w, which, compression_type) ==
    LET Written(w1, panic) ==
            IF panic THEN [w |-> w1, tag |-> "panic", msg |-> "index out of range"]
            ELSE IF compress(compression_type) = "Io"
                 THEN [w |-> w1, tag |-> "Io", msg |-> ""]
            ELSE IF w.metadata.file_version # "FormatV2"
                 THEN [w |-> w1, tag |-> "panic", msg |-> "assertion failed"]
            ELSE [w |-> w1, tag |-> "panic", msg |-> "not implemented"]
        Finished(f) == Written([w EXCEPT ![which] = f.bb], f.panic)
    IN  Finished(BlockBuilder_finish(w[which]))

\* Writer::flush: [w, tag]
Writer_flush(w) ==
    IF is_emtpy(w.data) THEN [w |-> w, tag |-> "Ok", msg |-> ""]
    ELSE IF w.pending_index_entry
         THEN [w |-> w, tag |-> "panic", msg |-> "assertion failed"]
    ELSE write_block(w, "data", w.compression_type)

\* A separator whose two bytes are written over start[diff_index..] instead of
\* being appended to start.
SeparatorWrittenInPlace(start, limit) ==
    LET min_length == Min(Len(start), Len(limit))
        diff_index == CommonPrefix(start, limit)
        Checked(st) == [start |-> st, panic |-> ~BytesLt(st, limit)]
    IN  IF diff_index >= min_length THEN { [start |-> start, panic |-> FALSE] }
        ELSE LET diff_byte == start[diff_index + 1]
             IN  IF diff_byte < 255 /\ diff_byte + 1 < limit[diff_index + 1]
                 THEN { Checked(Append(SubSeq(start, 1, diff_index), diff_byte + 1)) }
                 ELSE IF diff_index < Max(min_length - 2, 0)
                 THEN LET u_start == read_u16_be(start, diff_index)
                          u_limit == read_u16_be(limit, diff_index)
                          u_between == (u_start + 1) % 65536
                      IN  IF u_start <= u_between /\ u_between <= u_limit
                          THEN { Checked(SubSeq(start, 1, diff_index) \o BE16(u_between)
                                         \o SubSeq(start, diff_index + 3, Len(start))) }
                          ELSE { Checked(start) }
                 ELSE { Checked(start) }

\* bytes_shortest_separator(start, limit): the outcomes [start, panic]; the
\* sum u_start + 1 overflows u16 into a panic or into 0 depending on the build.
bytes_shortest_separator(start, limit) ==
    LET min_length == Min(Len(start), Len(limit))
        diff_index == CommonPrefix(start, limit)
        Checked(st) == [start |-> st, panic |-> ~BytesLt(st, limit)]
    IN  IF diff_index >= min_length THEN { [start |-> start, panic |-> FALSE] }
        ELSE LET diff_byte == start[diff_index + 1]
             IN  IF diff_byte < 255 /\ diff_byte + 1 < limit[diff_index + 1]
                 THEN { Checked(Append(SubSeq(start, 1, diff_index), diff_byte + 1)) }
                 ELSE IF diff_index < Max(min_length - 2, 0)
                 THEN LET u_start == read_u16_be(start, diff_index)
                          u_limit == read_u16_be(limit, diff_index)
                          u_between == u_start + 1
                      IN  IF u_start = 65535
                          THEN { [start |-> start, panic |-> TRUE], Checked(start) }
                          ELSE IF u_start <= u_between /\ u_between <= u_limit
                               THEN { Checked(start \o BE16(u_between)) }
                               ELSE { Checked(start) }
                 ELSE { Checked(start) }

\* Writer::insert(key, val): the outcomes [w, tag, msg]
Writer_insert(w, key, val) ==
    IF w.metadata.count_entries > 0 /\ BytesLe(key, w.last_key)
    THEN { [w |-> w, tag |-> "panic", msg |-> "out-of-order key"] }
    ELSE LET estimated_block_size ==
                 current_size_estimate(w.data) + 3 * 5 + Len(key) + Len(val)
             Added(w2, a) ==
                 { [w |-> [w2 EXCEPT !.data = a.bb],
                    tag |-> IF a.panic THEN "panic" ELSE "Ok",
                    msg |-> IF a.panic THEN "index out of range" ELSE ""] }
             Counted(w2) == Added(w2, BlockBuilder_add(w2.data, key, val))
             Flushed(fl, w1) ==
                 IF fl.tag # "Ok" THEN { fl }
                 ELSE IF w1.pending_index_entry
                 THEN (IF ~is_emtpy(w1.data)
                       THEN { [w |-> w1, tag |-> "panic", msg |-> "assertion failed"] }
                       ELSE \* index.add(.., varint_encode64(..)): unimplemented!()
                            { [w |-> [w1 EXCEPT !.last_key = sep.start], tag |-> "panic",
                               msg |-> IF sep.panic THEN "assertion failed"
                                       ELSE "not implemented"] :
                              sep \in bytes_shortest_separator(w1.last_key, key) })
                 ELSE Counted([w1 EXCEPT !.last_key = key,
                                         !.metadata.count_entries = @ + 1,
                                         !.metadata.bytes_keys = @ + Len(key),
                                         !.metadata.bytes_values = @ + Len(val)])
             Of(fl) == Flushed(fl, fl.w)
         IN  Of(IF estimated_block_size >= w.metadata.data_block_size
                THEN Writer_flush(w)
                ELSE [w |-> w, tag |-> "Ok", msg |-> ""])

\* Writer::into_inner: [w, tag, msg].  write_block returns no Ok, so the
\* trailer that follows it is never written.
Writer_into_inner(w) ==
    LET Flushed(fl, w1) ==
            IF fl.tag # "Ok" THEN fl
            ELSE IF w1.pending_index_entry
                 THEN [w |-> w1, tag |-> "panic", msg |-> "not implemented"]
            ELSE write_block([w1 EXCEPT !.metadata.index_block_offset = w1.pending_offset],
                             "index", CompressionNone)
        Of(fl) == Flushed(fl, fl.w)
    IN  Of(Writer_flush(w))

(***************************************************************************)
(* merger.rs.  A source is [data, entries, rd]: the bytes of a table, the  *)
(* entries it was made of and the Reader opened on it.  The BinaryHeap is  *)
(* the set of its entries; which of several entries with the least key is  *)
(* on top is not fixed by the order on keys, so every one of them may be.  *)
(***************************************************************************)
\* A fill that copies the key of the next entry and leaves the value empty,
\* as mem::take left it.
FillWithoutValue(srcs, e) ==
    LET Filled(n) ==
            [filled |-> n.item.some, panic |-> n.panic,
             entry |-> [src |-> e.src, iter |-> n.it, key |-> n.item.key, val |-> << >>]]
    IN  Filled(ReaderIntoIter_next(srcs[e.src].data, srcs[e.src].rd, e.iter))

\* Entry::fill: [filled, entry, panic]
Entry_fill(srcs, e) ==
    LET Filled(n) ==
            [filled |-> n.item.some, panic |-> n.panic,
             entry |-> [src |-> e.src, iter |-> n.it, key |-> n.item.key, val |-> n.item.val]]
    IN  Filled(ReaderIntoIter_next(srcs[e.src].data, srcs[e.src].rd, e.iter))

\* Entry::new(iter)
Entry_new(srcs, src, iter) ==
    Entry_fill(srcs, [src |-> src, iter |-> iter, key |-> << >>, val |-> << >>])

RECURSIVE FillHeap(_, _, _)
\* The loop of into_merge_iter over self.sources: [heap, panic]
FillHeap(srcs, i, heap) ==
    IF i > Len(srcs) THEN [heap |-> heap, panic |-> FALSE]
    ELSE LET Pushed(e) ==
                 IF e.panic THEN [heap |-> heap, panic |-> TRUE]
                 ELSE FillHeap(srcs, i + 1, IF e.filled THEN heap \cup { e.entry } ELSE heap)
             Over(iter) ==
                 IF iter.tag = "panic" THEN [heap |-> heap, panic |-> TRUE]
                 ELSE IF iter.tag # "Ok" THEN FillHeap(srcs, i + 1, heap)
                 ELSE Pushed(Entry_new(srcs, i, iter))
         IN  Over(ReaderIntoIter_new(srcs[i].data, srcs[i].rd))

\* Merger::into_merge_iter
Merger_into_merge_iter(srcs) ==
    LET Over(h) ==
            [tag |-> IF h.panic THEN "panic" ELSE "Ok", heap |-> h.heap,
             cur_key |-> << >>, cur_vals |-> << >>, merged_val |-> << >>,
             pending |-> FALSE, panicked |-> FALSE]
    IN  Over(FillHeap(srcs, 1, {}))

\* heap.peek_mut(): the entries that may be on top
TopEntries(heap) == { e \in heap : \A o \in heap : BytesLe(e.key, o.key) }

RECURSIVE Gather(_, _)
\* The loop of MergerIter::next: the states it may leave
Gather(srcs, mi) ==
    IF mi.heap = {} THEN { mi }
    ELSE UNION {
           LET Refilled(f, m2) ==
                   IF f.panic THEN { [m2 EXCEPT !.panicked = TRUE] } ELSE Gather(srcs, m2)
               Popped(m1, f) ==
                   Refilled(f, [m1 EXCEPT !.cur_vals = Append(@, e.val),
                                          !.heap = (@ \ { e }) \cup
                                                   (IF f.filled THEN { f.entry } ELSE {})])
               Peeked(m1) ==
                   IF m1.cur_key = e.key THEN Popped(m1, Entry_fill(srcs, e)) ELSE { m1 }
           IN  Peeked(IF mi.cur_key = << >>
                      THEN [mi EXCEPT !.cur_key = e.key, !.cur_vals = << >>, !.pending = TRUE]
                      ELSE mi) :
           e \in TopEntries(mi.heap) }

RECURSIVE Concat(_, _)
Concat(vals, i) == IF i > Len(vals) THEN << >> ELSE vals[i] \o Concat(vals, i + 1)

\* No error value
NoError == [of |-> << >>, n |-> -1]

\* The error value U a user's merge function returns for a key and its values
UserError(key, vals) == [of |-> key, n |-> Len(vals)]

\* The user's merge function: the concatenation of the values, or an error.
MergeOutcomes(key, vals) ==
    { [ok |-> TRUE, val |-> Concat(vals, 1), err |-> NoError],
      [ok |-> FALSE, val |-> << >>, err |-> UserError(key, vals)] }

\* An invocation of the merge function and what it returned
MergeCall(key, vals, m) == [key |-> key, vals |-> vals, ok |-> m.ok, err |-> m.err]

\* A merge function whose error is taken for a value: the entry is yielded
\* with an empty value and no error is reported.
MergeErrorSwallowed(g, m) ==
    [mi |-> [g EXCEPT !.merged_val = << >>, !.pending = FALSE],
     tag |-> "Some", key |-> g.cur_key, val |-> << >>, err |-> NoError,
     calls |-> << MergeCall(g.cur_key, g.cur_vals, m) >>]

\* Err(e) => return Some(Err(Error::Merge(e))): the outcome of next when the
\* merge function returned the error m.err for the gathered group of g
MergeFailed(g, m) ==
    [mi |-> g, tag |-> "Err", key |-> << >>, val |-> << >>, err |-> m.err,
     calls |-> << MergeCall(g.cur_key, g.cur_vals, m) >>]

\* MergerIter::next: the outcomes [mi, tag, key, val, err, calls], calls being
\* the invocations of merge it made and err the value of Err(Error::Merge(e))
MergerIter_next(srcs, mi) ==
    UNION {
      IF g.panicked
      THEN { [mi |-> g, tag |-> "panic", key |-> << >>, val |-> << >>,
              err |-> NoError, calls |-> << >>] }
      ELSE IF ~g.pending
      THEN { [mi |-> g, tag |-> "None", key |-> << >>, val |-> << >>,
              err |-> NoError, calls |-> << >>] }
      ELSE IF Len(g.cur_vals) = 1
      THEN { [mi |-> [g EXCEPT !.merged_val = g.cur_vals[1], !.cur_vals = << >>,
                               !.pending = FALSE],
              tag |-> "Some", key |-> g.cur_key, val |-> g.cur_vals[1],
              err |-> NoError, calls |-> << >>] }
      ELSE { IF m.ok
             THEN [mi |-> [g EXCEPT !.merged_val = m.val, !.pending = FALSE],
                   tag |-> "Some", key |-> g.cur_key, val |-> m.val, err |-> NoError,
                   calls |-> << MergeCall(g.cur_key, g.cur_vals, m) >>]
             ELSE MergeFailed(g, m) :
             m \in MergeOutcomes(g.cur_key, g.cur_vals) } :
      g \in Gather(srcs, [mi EXCEPT !.cur_key = << >>, !.cur_vals = << >>]) }

(***************************************************************************)
(* sorter.rs.  A chunk is the bytes of the temporary file a chunk Writer   *)
(* was finished on.  The outcomes of an operation are records whose tag is *)
(* "Ok", "Merge" (Error::Merge(err)), the name of an MtblError, "Io" or    *)
(* "panic", with the invocations of merge the operation made.              *)
(***************************************************************************)
INITIAL_SORTER_VEC_SIZE == 131072
MIN_SORTER_MEMORY == 10485760
CompressionSnappy == 1

\* size_of::<Entry>(): a Vec<u8> and a usize, on a 64-bit target
SizeOfEntry == 32

\* SorterBuilder { max_memory, max_nb_chunks, chunk_compression_type, .. }.build()
SorterBuilder_build(max_memory, max_nb_chunks, chunk_compression_type) ==
    [tag |-> "Ok", chunks |-> << >>, entries |-> << >>, entry_bytes |-> 0,
     capacity |-> INITIAL_SORTER_VEC_SIZE, max_memory |-> max_memory,
     max_nb_chunks |-> max_nb_chunks,
     chunk_compression_type |-> chunk_compression_type]

\* WriterBuilder::new().compression_type(..).compression_level(..).build(file)
ChunkWriter(so) ==
    WriterBuilder_build(DEFAULT_BLOCK_SIZE, DEFAULT_BLOCK_RESTART_INTERVAL,
                        so.chunk_compression_type)

\* self.entries.sort_unstable_by(key): every order of the entries with
\* ascending keys; the order of entries with equal keys is not fixed.
SortedOrders(es) ==
    LET n == Len(es)
        Perms == { f \in [1..n -> 1..n] : \A i, j \in 1..n : i # j => f[i] # f[j] }
    IN  { [i \in 1..n |-> es[q[i]]] :
            q \in { f \in Perms :
                      \A i \in 1..(n - 1) : BytesLe(es[f[i]].key, es[f[i + 1]].key) } }

NoCurrent == [some |-> FALSE, key |-> << >>, vals |-> << >>]

\* writer.insert(&key, &merged_val)?: the outcomes [tag, err, w, calls, cur]
ChunkInsert(w, key, val, calls) ==
    { [tag |-> o.tag, err |-> NoError, w |-> o.w, calls |-> calls, cur |-> NoCurrent] :
      o \in Writer_insert(w, key, val) }

\* The value of a group and its insert: merge is for groups of two and more
EmitGroup(w, key, vals, calls) ==
    LET merged ==
            IF Len(vals) = 1 THEN { [ok |-> TRUE, val |-> vals[1], calls |-> calls] }
            ELSE { [ok |-> m.ok, val |-> m.val, err |-> m.err,
                    calls |-> Append(calls, MergeCall(key, vals, m))] :
                   m \in MergeOutcomes(key, vals) }
    IN  UNION { IF m.ok THEN ChunkInsert(w, key, m.val, m.calls)
                ELSE { [tag |-> "Merge", err |-> m.err, w |-> w, calls |-> m.calls,
                        cur |-> NoCurrent] } :
                m \in merged }

RECURSIVE ChunkSweep(_, _, _, _, _)
\* The for loop of write_chunk over the sorted entries es[i..] and the
\* if let Some(..) = current.take() after it: the group in cur is merged and
\* inserted when an entry of another key comes and when the entries end.
ChunkSweep(w, es, i, cur, calls) ==
    IF i <= Len(es) /\ (~cur.some \/ cur.key = es[i].key)
    THEN ChunkSweep(w, es, i + 1,
                    [some |-> TRUE, key |-> es[i].key,
                     vals |-> Append(cur.vals, es[i].val)], calls)
    ELSE IF ~cur.some
    THEN { [tag |-> "Ok", err |-> NoError, w |-> w, calls |-> calls, cur |-> cur] }
    ELSE UNION { IF o.tag # "Ok" \/ i > Len(es) THEN { o }
                 ELSE ChunkSweep(o.w, es, i + 1,
                                 [some |-> TRUE, key |-> es[i].key,
                                  vals |-> << es[i].val >>], o.calls) :
                 o \in EmitGroup(w, cur.key, cur.vals, calls) }

\* writer.into_inner()? and self.chunks.push(file): the outcomes [so, tag, err, calls]
ChunkPush(so, w, calls) ==
    LET Pushed(r) ==
            IF r.tag # "Ok" THEN [so |-> so, tag |-> r.tag, err |-> NoError, calls |-> calls]
            ELSE [so |-> [so EXCEPT !.chunks = Append(@, r.w.writer)], tag |-> "Ok",
                  err |-> NoError, calls |-> calls]
    IN  { Pushed(Writer_into_inner(w)) }

\* The end of write_chunk after the loop left with o: the chunk is pushed and
\* entry_bytes reset when nothing failed
ChunkClosed(so, o) ==
    IF o.tag # "Ok" THEN { [so |-> so, tag |-> o.tag, err |-> o.err, calls |-> o.calls] }
    ELSE { IF p.tag # "Ok" THEN p ELSE [p EXCEPT !.so.entry_bytes = 0] :
           p \in ChunkPush(so, o.w, o.calls) }

\* Sorter::write_chunk: the outcomes [so, tag, err, calls].  entries.drain(..)
\* leaves the vector empty however the loop is left.
Sorter_write_chunk(so) ==
    UNION { UNION { ChunkClosed([so EXCEPT !.entries = << >>], o) :
                    o \in ChunkSweep(ChunkWriter(so), es, 1, NoCurrent, << >>) } :
            es \in SortedOrders(so.entries) }

\* The Readers of the chunks: [data, entries, rd] as the sources of a Merger
ChunkSources(chunks) ==
    [i \in 1..Len(chunks) |->
        [data |-> chunks[i], entries |-> << >>, rd |-> ReaderBuilder_read(chunks[i])]]

\* sources?: the error of the first Reader::new that fails
SourcesError(sources) ==
    LET bad == { i \in 1..Len(sources) : sources[i].rd.tag # "Ok" }
    IN  IF bad = {} THEN "Ok"
        ELSE LET i == CHOOSE j \in bad : \A k \in bad : j <= k
             IN  IF sources[i].rd.tag = "overflow" THEN "panic" ELSE sources[i].rd.tag

RECURSIVE MergeLoop(_, _, _, _)
\* while let Some(result) = iter.next() { let (key, val) = result?;
\* writer.insert(key, val)?; }: the outcomes [tag, err, w, calls]
MergeLoop(sources, iter, w, calls) ==
    UNION { IF o.tag = "None"
            THEN { [tag |-> "Ok", err |-> NoError, w |-> w, calls |-> calls \o o.calls] }
            ELSE IF o.tag = "Err"
            THEN { [tag |-> "Merge", err |-> o.err, w |-> w, calls |-> calls \o o.calls] }
            ELSE IF o.tag = "panic"
            THEN { [tag |-> "panic", err |-> NoError, w |-> w, calls |-> calls \o o.calls] }
            ELSE UNION { IF x.tag # "Ok"
                         THEN { [tag |-> x.tag, err |-> NoError, w |-> x.w,
                                 calls |-> calls \o o.calls] }
                         ELSE MergeLoop(sources, o.mi, x.w, calls \o o.calls) :
                         x \in Writer_insert(w, o.key, o.val) } :
            o \in MergerIter_next(sources, iter) }

\* merger.into_merge_iter().map_err(..)? and the loop over the iterator
MergeInto(sources, iter, w) ==
    IF iter.tag # "Ok"
    THEN { [tag |-> "panic", err |-> NoError, w |-> w, calls |-> << >>] }
    ELSE MergeLoop(sources, iter, w, << >>)

\* builder.extend(sources?), the Merger over them and what follows
MergeSources(sources, w) ==
    IF SourcesError(sources) # "Ok"
    THEN { [tag |-> SourcesError(sources), err |-> NoError, w |-> w, calls |-> << >>] }
    ELSE MergeInto(sources, Merger_into_merge_iter(sources), w)

\* The end of merge_chunks after the loop left with o
MergeClosed(so, o) ==
    IF o.tag # "Ok" THEN { [so |-> so, tag |-> o.tag, err |-> o.err, calls |-> o.calls] }
    ELSE ChunkPush(so, o.w, o.calls)

\* Sorter::merge_chunks: the outcomes [so, tag, err, calls].  chunks.drain(..)
\* leaves the list empty.
Sorter_merge_chunks(so) ==
    UNION { MergeClosed([so EXCEPT !.chunks = << >>], o) :
            o \in MergeSources(ChunkSources(so.chunks), ChunkWriter(so)) }

\* if self.chunks.len() > self.max_nb_chunks { self.merge_chunks()?; } after
\* write_chunk left with o
InsertChunked(o) ==
    IF o.tag # "Ok" THEN { o }
    ELSE IF Len(o.so.chunks) > o.so.max_nb_chunks
    THEN { [m EXCEPT !.calls = o.calls \o @] : m \in Sorter_merge_chunks(o.so) }
    ELSE { o }

\* Sorter::insert(key, val): the outcomes [so, tag, err, calls]
Sorter_insert(so, key, val) ==
    LET so1 == [so EXCEPT !.entry_bytes = @ + Len(key) + Len(val),
                          !.entries = Append(@, [key |-> key, val |-> val]),
                          !.capacity = IF Len(so.entries) < @ THEN @ ELSE 2 * @]
    IN  IF so1.entry_bytes + so1.capacity * SizeOfEntry >= so1.max_memory
        THEN UNION { InsertChunked(o) : o \in Sorter_write_chunk(so1) }
        ELSE { [so |-> so1, tag |-> "Ok", err |-> NoError, calls |-> << >>] }

\* into_iter left with tag after write_chunk left with o
IntoIterFailed(o, tag) ==
    [so |-> o.so, tag |-> tag, err |-> o.err, calls |-> o.calls,
     srcs |-> << >>, mi |-> [tag |-> "None"]]

\* builder.build().into_merge_iter().map_err(Error::convert_merge_error)
IntoIterOver(o, sources, iter) ==
    IF iter.tag # "Ok" THEN IntoIterFailed(o, "panic")
    ELSE [so |-> o.so, tag |-> "Ok", err |-> NoError, calls |-> o.calls,
          srcs |-> sources, mi |-> iter]

\* builder.extend(sources?) and the Merger over the sources
IntoIterWith(o, sources) ==
    IF SourcesError(sources) # "Ok" THEN IntoIterFailed(o, SourcesError(sources))
    ELSE IntoIterOver(o, sources, Merger_into_merge_iter(sources))

\* Sorter::into_iter: the outcomes [so, tag, err, calls, srcs, mi], srcs and
\* mi being the sources and the MergerIter that is returned
Sorter_into_iter(so) ==
    { IF o.tag # "Ok" THEN IntoIterFailed(o, o.tag)
      ELSE IntoIterWith(o, ChunkSources(o.so.chunks)) :
      o \in Sorter_write_chunk(so) }

\* Sorter::write_into(writer): the outcomes [so, tag, err, calls, w]
Sorter_write_into(so, w) ==
    UNION { IF i.tag # "Ok"
            THEN { [so |-> i.so, tag |-> i.tag, err |-> i.err, calls |-> i.calls, w |-> w] }
            ELSE { [so |-> i.so, tag |-> o.tag, err |-> o.err, calls |-> o.calls, w |-> o.w] :
                   o \in MergeLoop(i.srcs, i.mi, w, i.calls) } :
            i \in Sorter_into_iter(so) }

Tables == TablesOf(KeySets, 0)

(***************************************************************************)
(* The state: a table file and the reader, the iterator and the results of *)
(* the calls made on it.                                                   *)
(***************************************************************************)
VARIABLES
    data,       \* the bytes of the table file
    entries,    \* the entries the table file was made of
    rd,         \* the Reader, or the error of Reader::new
    it,         \* the ReaderIntoIter, or the error of its construction
    query,      \* the call that was made on the reader
    out,        \* the entries next() has yielded so far
    res,        \* the result of the last next() or of get()
    w,          \* the Writer
    wlog,       \* the (key, value) pairs insert was called with, in order
    wres,       \* the last call on the writer and its result
    srcs,       \* the sources of the Merger
    mi,         \* the MergerIter
    mout,       \* the entries the MergerIter has yielded so far
    mcalls,     \* the invocations of the merge function so far
    mres,       \* the result of the last next() of the MergerIter
    sorter,     \* the Sorter
    slog,       \* the (key, value) pairs the sorter was given, in order
    sres,       \* the last call on the sorter and its result
    duo,        \* two iterators over one reader and what each was asked and gave
    fx          \* a call of a free function: its arguments and its result

vars == << data, entries, rd, it, query, out, res, w, wlog, wres,
           srcs, mi, mout, mcalls, mres, sorter, slog, sres, duo, fx >>
readerVars == << data, entries, rd, it, query, out, res >>
writerVars == << w, wlog, wres >>
mergerVars == << srcs, mi, mout, mcalls, mres >>
sorterVars == << sorter, slog, sres >>

NoReader == [tag |-> "None"]
NoIter == [tag |-> "None"]
NoQuery == [op |-> "none", a |-> << >>, b |-> << >>]
NoResult == [tag |-> "Idle", some |-> FALSE, val |-> << >>]
NoWriter == [tag |-> "None"]
NoCall ==
    [call |-> "none", tag |-> "None", msg |-> "", had_entries |-> FALSE,
     after_last |-> FALSE, added |-> FALSE]

ReaderIdle ==
    /\ data = << >> /\ entries = << >> /\ rd = NoReader /\ it = NoIter
    /\ query = NoQuery /\ out = << >> /\ res = NoResult

WriterIdle == w = NoWriter /\ wlog = << >> /\ wres = NoCall

NoMergerIter == [tag |-> "None"]
NoMergerResult ==
    [tag |-> "Idle", some |-> FALSE, val |-> << >>, err |-> NoError, calls |-> << >>]

MergerIdle ==
    /\ srcs = << >> /\ mi = NoMergerIter /\ mout = << >> /\ mcalls = << >>
    /\ mres = NoMergerResult

NoSorter == [tag |-> "None"]
NoSorterCall ==
    [call |-> "none", tag |-> "None", err |-> NoError, calls |-> << >>, clean |-> TRUE,
     srcs |-> << >>, mi |-> NoMergerIter]

SorterIdle == sorter = NoSorter /\ slog = << >> /\ sres = NoSorterCall

NoDuo == [tag |-> "None"]
NoFx == [fn |-> "none"]

DuoIdle == duo = NoDuo
FxIdle == fx = NoFx

InitReader ==
    /\ \E t \in Tables : data = FmtTable(t) /\ entries = Flatten(t.blocks, 1)
    /\ rd = NoReader
    /\ it = NoIter
    /\ query = NoQuery
    /\ out = << >>
    /\ res = NoResult
    /\ WriterIdle
    /\ MergerIdle
    /\ SorterIdle /\ DuoIdle /\ FxIdle

\* Reader::new(data)
Open ==
    /\ rd.tag = "None"
    /\ rd' = ReaderBuilder_read(data)
    /\ UNCHANGED << data, entries, it, query, out, res, writerVars, mergerVars,
                   sorterVars, duo, fx >>

CanQuery == rd.tag = "Ok" /\ query.op = "none"

\* Reader::into_iter
IntoIter ==
    /\ CanQuery
    /\ query' = [op |-> "iter", a |-> << >>, b |-> << >>]
    /\ it' = ReaderIntoIter_new(data, rd)
    /\ UNCHANGED << data, entries, rd, out, res, writerVars, mergerVars,
                   sorterVars, duo, fx >>

\* Reader::iter_from(start)
IterFrom ==
    /\ CanQuery
    /\ \E start \in Keys :
         /\ query' = [op |-> "iter_from", a |-> start, b |-> << >>]
         /\ it' = ReaderIntoIter_new_from(data, rd, start)
    /\ UNCHANGED << data, entries, rd, out, res, writerVars, mergerVars,
                   sorterVars, duo, fx >>

\* Reader::iter_prefix(prefix)
IterPrefix ==
    /\ CanQuery
    /\ \E prefix \in Keys :
         /\ query' = [op |-> "iter_prefix", a |-> prefix, b |-> << >>]
         /\ it' = ReaderIntoIter_new_get_prefix(data, rd, prefix)
    /\ UNCHANGED << data, entries, rd, out, res, writerVars, mergerVars,
                   sorterVars, duo, fx >>

\* Reader::iter_range(start, end)
IterRange ==
    /\ CanQuery
    /\ \E start \in Keys, end \in Keys :
         /\ query' = [op |-> "iter_range", a |-> start, b |-> end]
         /\ it' = ReaderIntoIter_new_get_range(data, rd, start, end)
    /\ UNCHANGED << data, entries, rd, out, res, writerVars, mergerVars,
                   sorterVars, duo, fx >>

\* Reader::get(key)
Get ==
    /\ CanQuery
    /\ \E key \in Keys :
         /\ query' = [op |-> "get", a |-> key, b |-> << >>]
         /\ res' = Reader_get(data, rd, key)
    /\ UNCHANGED << data, entries, rd, it, out, writerVars, mergerVars,
                   sorterVars, duo, fx >>

\* ReaderIntoIter::next
IterNext ==
    /\ it.tag = "Ok"
    /\ res.tag # "panic"
    /\ LET Returned(n) ==
               /\ it' = n.it
               /\ out' = IF n.item.some
                         THEN Append(out, [key |-> n.item.key, val |-> n.item.val])
                         ELSE out
               /\ res' = [tag |-> IF n.panic THEN "panic" ELSE "Ok",
                          some |-> n.item.some, val |-> n.item.val]
       IN  Returned(ReaderIntoIter_next(data, rd, it))
    /\ UNCHANGED << data, entries, rd, query, writerVars, mergerVars,
                   sorterVars, duo, fx >>

NextReader == Open \/ IntoIter \/ IterFrom \/ IterPrefix \/ IterRange \/ Get \/ IterNext

SpecReader == InitReader /\ [][NextReader]_vars

(***************************************************************************)
(* Two iterators over one reader: each is a ReaderIntoIter made by         *)
(* into_iter() on a Reader of the same bytes, and a program calls next()   *)
(* and seek() on them in any order.                                        *)
(***************************************************************************)
MaxDuoOps == 2

DuoKeys == UNION { KeysOfLen(n) : n \in 0..1 }

\* The tables of three data blocks whose index keys are the blocks' last keys
DuoTables ==
    { t \in Tables :
        /\ t.interval = DEFAULT_BLOCK_RESTART_INTERVAL
        /\ Len(t.blocks) = 3
        /\ \A b \in 1..3 : t.seps[b] = t.blocks[b][Len(t.blocks[b])].key }

\* One call op on the iterator iter: [it, result]
DuoCall(d, r, iter, op) ==
    IF op.op = "next"
    THEN LET Got(n) ==
                 [it |-> n.it,
                  result |-> [tag |-> IF n.panic THEN "panic" ELSE "Ok", some |-> n.item.some,
                              key |-> n.item.key, val |-> n.item.val]]
         IN  Got(ReaderIntoIter_next(d, r, iter))
    ELSE LET Sought(o) ==
                 [it |-> o.it,
                  result |-> [tag |-> o.tag, some |-> FALSE, key |-> << >>, val |-> << >>]]
         IN  Sought(ReaderIntoIter_seek(d, r, iter, op.key))

\* An iterator whose position is kept where every iterator of the reader
\* finds it: a call on one moves them all.
DuoStepShared(its, i, n) == [j \in DOMAIN its |-> n]

\* The iterators after a call on iterator i left it as n: a ReaderIntoIter
\* owns its index_iter, bi and flags, so no other iterator changes.
DuoStep(its, i, n) == [its EXCEPT ![i] = n]

\* The state after the call op on iterator i returned c
DuoAfter(i, op, c) ==
    [duo EXCEPT !.its = DuoStep(duo.its, i, c.it),
                !.ops[i] = Append(@, op),
                !.results[i] = Append(@, c.result),
                !.order = Append(@, i)]

\* Iterator i may be called: it exists and has not panicked.
DuoCallable(i) ==
    /\ duo.tag = "Ok"
    /\ duo.its[i].tag = "Ok"
    /\ Len(duo.ops[i]) < MaxDuoOps
    /\ \A j \in 1..Len(duo.results[i]) : duo.results[i][j].tag # "panic"

InitDuo ==
    /\ \E t \in DuoTables :
         /\ data = FmtTable(t)
         /\ entries = Flatten(t.blocks, 1)
         /\ rd = ReaderBuilder_read(FmtTable(t))
         /\ duo = [tag |-> "Ok",
                   its |-> [i \in 1..2 |->
                              ReaderIntoIter_new(FmtTable(t), ReaderBuilder_read(FmtTable(t)))],
                   ops |-> << << >>, << >> >>,
                   results |-> << << >>, << >> >>,
                   order |-> << >>]
    /\ it = NoIter /\ query = NoQuery /\ out = << >> /\ res = NoResult
    /\ WriterIdle
    /\ MergerIdle
    /\ SorterIdle /\ FxIdle

\* next() on one of the two iterators
DuoNext ==
    \E i \in 1..2 :
       /\ DuoCallable(i)
       /\ duo' = DuoAfter(i, [op |-> "next", key |-> << >>],
                          DuoCall(data, rd, duo.its[i], [op |-> "next", key |-> << >>]))
       /\ UNCHANGED << readerVars, writerVars, mergerVars, sorterVars, fx >>

\* seek(key) on one of the two iterators
DuoSeek ==
    \E i \in 1..2, key \in DuoKeys :
       /\ DuoCallable(i)
       /\ duo' = DuoAfter(i, [op |-> "seek", key |-> key],
                          DuoCall(data, rd, duo.its[i], [op |-> "seek", key |-> key]))
       /\ UNCHANGED << readerVars, writerVars, mergerVars, sorterVars, fx >>

NextDuo == DuoNext \/ DuoSeek

SpecDuo == InitDuo /\ [][NextDuo]_vars

(***************************************************************************)
(* Reader::new on byte strings that need not be tables: zeros with the     *)
(* wrapper of an index block among them, and a trailer whose offset,       *)
(* compression identifier and magic number are chosen freely.              *)
(***************************************************************************)
MaxCraftPad == 1
MaxIndexLen == 9

\* The bytes of an index block: zeros, a block without entries, and a block
\* whose count of restarts is greater than its restart array
CraftPayloads ==
    { Zeros(n) : n \in 0..MaxIndexLen } \cup { LE32(0) \o LE32(1), LE32(0) \o LE32(3) }

CraftSlacks == {0, 3, 8}
CraftMagics == { MTBL_MAGIC, MTBL_MAGIC_V1, 0 }
CraftCompressions == {0, 5, 6}

\* The bytes before the trailer
CraftBodies ==
    { [pad |-> pad, bytes |-> Zeros(pad) \o FmtWrap(payload) \o Zeros(slack)] :
      pad \in 0..MaxCraftPad, payload \in CraftPayloads, slack \in CraftSlacks }

\* The offsets the trailer may give for the index block of a body: where the
\* wrapper is, and the offsets from 12 to 17 bytes before the trailer
CraftOffsets(body) ==
    { body.pad } \cup { Len(body.bytes) - k : k \in 12..Min(17, Len(body.bytes)) }

CraftTrailer(index_block_offset, compression_algorithm, magic) ==
    LE64(index_block_offset) \o LE64(DEFAULT_BLOCK_SIZE) \o LE64(compression_algorithm)
    \o Zeros(METADATA_SIZE - 4 - 24) \o LE32(magic)

CraftedFiles ==
    { Zeros(0), Zeros(METADATA_SIZE - 1) }
    \cup UNION { { body.bytes \o CraftTrailer(ibo, ca, magic) :
                   ibo \in CraftOffsets(body), ca \in CraftCompressions,
                   magic \in CraftMagics } :
                 body \in CraftBodies }

InitOpen ==
    /\ data \in CraftedFiles
    /\ entries = << >> /\ rd = NoReader /\ it = NoIter
    /\ query = NoQuery /\ out = << >> /\ res = NoResult
    /\ WriterIdle
    /\ MergerIdle
    /\ SorterIdle /\ DuoIdle /\ FxIdle

SpecOpen == InitOpen /\ [][Open]_vars

\* iter.seek(key) on the iterator of Reader::into_iter or iter_from, at
\* whatever entry it stands
IterSeek ==
    /\ it.tag = "Ok"
    /\ res.tag # "panic"
    /\ query.op \in {"iter", "iter_from"}
    /\ \E key \in Keys :
         LET Returned(o) ==
                 /\ it' = o.it
                 /\ res' = [tag |-> IF o.tag = "Ok" THEN "Sought" ELSE o.tag,
                            some |-> FALSE, val |-> << >>]
         IN  /\ query' = [op |-> "seek", a |-> key, b |-> << >>]
             /\ out' = << >>
             /\ Returned(ReaderIntoIter_seek(data, rd, it, key))
    /\ UNCHANGED << data, entries, rd, writerVars, mergerVars, sorterVars, duo, fx >>

NextReaderSeek == NextReader \/ IterSeek

SpecReaderSeek == InitReader /\ [][NextReaderSeek]_vars

(***************************************************************************)
(* The writer: a Writer over a Vec built by WriterBuilder, the calls of    *)
(* insert and the final into_inner.  A caller that catches the unwind of a *)
(* panicking insert still holds the writer and may call it again.          *)
(***************************************************************************)
MaxInserts == 3
BigValueLen == 1000

WriterIntervals == {0, 1, DEFAULT_BLOCK_RESTART_INTERVAL}
WriterValues == { << >>, << 7 >>, Zeros(BigValueLen) }

InitWriter ==
    /\ \E interval \in WriterIntervals :
         w = WriterBuilder_build(DEFAULT_BLOCK_SIZE \div 8, interval, CompressionNone)
    /\ wlog = << >>
    /\ wres = NoCall
    /\ ReaderIdle
    /\ MergerIdle
    /\ SorterIdle /\ DuoIdle /\ FxIdle

\* writer.insert(key, val)
Insert ==
    /\ wres.call # "into_inner"
    /\ Len(wlog) < MaxInserts
    /\ \E key \in Keys, val \in WriterValues :
         \E o \in Writer_insert(w, key, val) :
            /\ w' = o.w
            /\ wlog' = Append(wlog, [key |-> key, val |-> val])
            /\ wres' = [call |-> "insert", tag |-> o.tag, msg |-> o.msg,
                        had_entries |-> w.metadata.count_entries > 0,
                        after_last |-> BytesLt(w.last_key, key),
                        added |-> o.w.metadata.count_entries # w.metadata.count_entries]
    /\ UNCHANGED << readerVars, mergerVars, sorterVars, duo, fx >>

\* writer.into_inner()
IntoInner ==
    /\ wres.call # "into_inner"
    /\ LET o == Writer_into_inner(w)
       IN  /\ w' = o.w
           /\ wres' = [call |-> "into_inner", tag |-> o.tag, msg |-> o.msg,
                       had_entries |-> w.metadata.count_entries > 0,
                       after_last |-> FALSE, added |-> FALSE]
    /\ UNCHANGED << wlog, readerVars, mergerVars, sorterVars, duo, fx >>

NextWriter == Insert \/ IntoInner

SpecWriter == InitWriter /\ [][NextWriter]_vars

(***************************************************************************)
(* The merger: a Merger built over readers of tables, its MergerIter and   *)
(* the calls of next.  Source i holds the values of salt i.                *)
(***************************************************************************)
MaxSources == 2
MaxSourceEntries == 2
MaxMergerSteps == 6

SourceKeySets == { S \in SUBSET Keys : Cardinality(S) <= MaxSourceEntries }

SourceShapes ==
    { t \in TablesOf(SourceKeySets, 0) : t.interval = DEFAULT_BLOCK_RESTART_INTERVAL }

Salted(t, salt) ==
    [t EXCEPT !.blocks = [b \in 1..Len(t.blocks) |->
                            [j \in 1..Len(t.blocks[b]) |->
                               [key |-> t.blocks[b][j].key,
                                val |-> ValueOf(t.blocks[b][j].key, salt)]]]]

Source(t) ==
    LET Over(d) == [data |-> d, entries |-> Flatten(t.blocks, 1), rd |-> ReaderBuilder_read(d)]
    IN  Over(FmtTable(t))

InitMerger ==
    /\ \E n \in 1..MaxSources :
         \E shapes \in [1..n -> SourceShapes] :
            srcs = [i \in 1..n |-> Source(Salted(shapes[i], i))]
    /\ mi = NoMergerIter
    /\ mout = << >>
    /\ mcalls = << >>
    /\ mres = NoMergerResult
    /\ ReaderIdle
    /\ WriterIdle
    /\ SorterIdle /\ DuoIdle /\ FxIdle

\* merger.into_merge_iter()
IntoMergeIter ==
    /\ mi.tag = "None"
    /\ mi' = Merger_into_merge_iter(srcs)
    /\ UNCHANGED << srcs, mout, mcalls, mres, readerVars, writerVars,
                   sorterVars, duo, fx >>

\* iter.next() on the MergerIter
MergerNext ==
    /\ mi.tag = "Ok"
    /\ mres.tag # "panic"
    /\ Len(mout) + Len(mcalls) < MaxMergerSteps
    /\ \E o \in MergerIter_next(srcs, mi) :
         /\ mi' = o.mi
         /\ mout' = IF o.tag = "Some" THEN Append(mout, [key |-> o.key, val |-> o.val])
                    ELSE mout
         /\ mcalls' = mcalls \o o.calls
         /\ mres' = [tag |-> o.tag, some |-> o.tag = "Some", val |-> o.val,
                      err |-> o.err, calls |-> o.calls]
    /\ UNCHANGED << srcs, readerVars, writerVars,
                   sorterVars, duo, fx >>

NextMerger == IntoMergeIter \/ MergerNext

SpecMerger == InitMerger /\ [][NextMerger]_vars

(***************************************************************************)
(* The sorter: a Sorter built by a SorterBuilder whose fields were set,    *)
(* the inserts made on it and the call that consumes it.                   *)
(***************************************************************************)
MaxSorterInserts == 3

\* The least max_memory under which the second byte given to insert spills
SpillMemory == INITIAL_SORTER_VEC_SIZE * SizeOfEntry + 2

SorterMemories == { SpillMemory, MIN_SORTER_MEMORY }
SorterNbChunks == { 1, 2 }
SorterCompressions == { CompressionNone, CompressionSnappy }
SorterValues == { << >>, << 7 >> }

AllOk(calls) == \A i \in 1..Len(calls) : calls[i].ok

InitSorter ==
    /\ \E mem \in SorterMemories, nb \in SorterNbChunks, ct \in SorterCompressions :
         sorter = SorterBuilder_build(mem, nb, ct)
    /\ slog = << >>
    /\ sres = NoSorterCall
    /\ ReaderIdle
    /\ WriterIdle
    /\ MergerIdle
    /\ DuoIdle /\ FxIdle

\* sorter.insert(key, val)
SorterInsert ==
    /\ sorter.tag = "Ok"
    /\ sres.tag # "panic"
    /\ Len(slog) < MaxSorterInserts
    /\ \E key \in Keys, val \in SorterValues :
         /\ slog' = Append(slog, [key |-> key, val |-> val])
         /\ \E o \in Sorter_insert(sorter, key, val) :
              /\ sorter' = o.so
              /\ sres' = [call |-> "insert", tag |-> o.tag, err |-> o.err,
                           calls |-> o.calls, clean |-> sres.clean /\ AllOk(o.calls),
                           srcs |-> << >>, mi |-> NoMergerIter]
    /\ UNCHANGED << readerVars, writerVars, mergerVars, duo, fx >>

\* sorter.into_iter()
SorterIntoIter ==
    /\ sorter.tag = "Ok"
    /\ sres.tag # "panic"
    /\ \E o \in Sorter_into_iter(sorter) :
         /\ sorter' = [o.so EXCEPT !.tag = "Moved"]
         /\ sres' = [call |-> "into_iter", tag |-> o.tag, err |-> o.err,
                      calls |-> o.calls, clean |-> sres.clean /\ AllOk(o.calls),
                      srcs |-> o.srcs, mi |-> o.mi]
    /\ UNCHANGED << slog, readerVars, writerVars, mergerVars, duo, fx >>

\* sorter.write_into(&mut WriterBuilder::new().memory())
SorterWriteInto ==
    /\ sorter.tag = "Ok"
    /\ sres.tag # "panic"
    /\ \E o \in Sorter_write_into(sorter,
                     WriterBuilder_build(DEFAULT_BLOCK_SIZE, DEFAULT_BLOCK_RESTART_INTERVAL,
                                         CompressionNone)) :
         /\ sorter' = [o.so EXCEPT !.tag = "Moved"]
         /\ sres' = [call |-> "write_into", tag |-> o.tag, err |-> o.err,
                      calls |-> o.calls, clean |-> sres.clean /\ AllOk(o.calls),
                      srcs |-> << >>, mi |-> NoMergerIter]
    /\ UNCHANGED << slog, readerVars, writerVars, mergerVars, duo, fx >>

NextSorter == SorterInsert \/ SorterIntoIter \/ SorterWriteInto

SpecSorter == InitSorter /\ [][NextSorter]_vars

(***************************************************************************)
(* A call of bytes_shortest_separator(&mut start, limit)                   *)
(***************************************************************************)
MaxSepLen == 4

SepAlphabet == {0, 1, 255}

RECURSIVE SepStringsOfLen(_)
SepStringsOfLen(n) ==
    IF n = 0 THEN { << >> }
    ELSE { Append(k, c) : k \in SepStringsOfLen(n - 1), c \in SepAlphabet }

SepStrings == UNION { SepStringsOfLen(n) : n \in 0..MaxSepLen }

InitSeparator ==
    /\ \E start \in SepStrings, limit \in SepStrings :
         fx = [fn |-> "bytes_shortest_separator", start |-> start, limit |-> limit,
               done |-> FALSE, result |-> start, panic |-> FALSE]
    /\ ReaderIdle
    /\ WriterIdle
    /\ MergerIdle
    /\ SorterIdle /\ DuoIdle

\* bytes_shortest_separator(&mut start, limit)
Separate ==
    /\ fx.fn = "bytes_shortest_separator"
    /\ ~fx.done
    /\ \E o \in bytes_shortest_separator(fx.start, fx.limit) :
         fx' = [fx EXCEPT !.done = TRUE, !.result = o.start, !.panic = o.panic]
    /\ UNCHANGED << readerVars, writerVars, mergerVars, sorterVars, duo >>

SpecSeparator == InitSeparator /\ [][Separate]_vars

(***************************************************************************)
(* A BlockBuilder on its own: add, finish and reset called in any order on *)
(* a builder of any restart interval.  A caller that catches the unwind of *)
(* a panicking call still holds the builder and may call it again.         *)
(***************************************************************************)
MaxAdds == 3

BuilderIntervals == {0, 1, 2, DEFAULT_BLOCK_RESTART_INTERVAL}
BuilderValues == { << >>, << 7 >> }

NoBuilderCall == [call |-> "none", panic |-> FALSE, content |-> << >>]

InitBuilder ==
    /\ \E interval \in BuilderIntervals :
         fx = [fn |-> "block_builder", bb |-> BlockBuilder_new(interval),
               before |-> BlockBuilder_new(interval), log |-> << >>,
               res |-> NoBuilderCall]
    /\ ReaderIdle
    /\ WriterIdle
    /\ MergerIdle
    /\ SorterIdle /\ DuoIdle

\* builder.add(key, val)
BuilderAdd ==
    /\ fx.fn = "block_builder"
    /\ Len(fx.log) < MaxAdds
    /\ ~fx.bb.finished
    /\ \E key \in Keys, val \in BuilderValues :
         LET Added(o) ==
                 fx' = [fx EXCEPT !.bb = o.bb, !.before = fx.bb,
                                  !.log = Append(@, [key |-> key, val |-> val]),
                                  !.res = [call |-> "add", panic |-> o.panic,
                                           content |-> << >>]]
         IN  Added(BlockBuilder_add(fx.bb, key, val))
    /\ UNCHANGED << readerVars, writerVars, mergerVars, sorterVars, duo >>

\* builder.finish()
BuilderFinish ==
    /\ fx.fn = "block_builder"
    /\ fx.res.call # "finish"
    /\ LET Ended(o) ==
               fx' = [fx EXCEPT !.bb = o.bb, !.before = fx.bb,
                                !.res = [call |-> "finish", panic |-> o.panic,
                                         content |-> o.content]]
       IN  Ended(BlockBuilder_finish(fx.bb))
    /\ UNCHANGED << readerVars, writerVars, mergerVars, sorterVars, duo >>

\* builder.reset()
BuilderReset ==
    /\ fx.fn = "block_builder"
    /\ fx.res.call \in {"add", "finish"}
    /\ fx' = [fx EXCEPT !.bb = BlockBuilder_reset(fx.bb), !.before = fx.bb,
                        !.res = [call |-> "reset", panic |-> FALSE, content |-> << >>]]
    /\ UNCHANGED << readerVars, writerVars, mergerVars, sorterVars, duo >>

NextBuilder == BuilderAdd \/ BuilderFinish \/ BuilderReset

SpecBuilder == InitBuilder /\ [][NextBuilder]_vars

(***************************************************************************)
(* A BlockIter on a well-formed block: a block of the format with entries  *)
(* of ascending keys, and the calls of seek and next on its iterator.      *)
(***************************************************************************)
MaxBlockEntries == 4
MaxBlockCalls == 2

BlockKeySets == { S \in SUBSET Keys : Cardinality(S) <= MaxBlockEntries }

\* The iterator of BlockIter::init(Block::init(d))
BlockIterOver(d) == BlockIter_init(d, Block_init(d, 0, Len(d)))

InitBlockSeek ==
    /\ \E S \in BlockKeySets, interval \in Intervals :
         fx = [fn |-> "block_seek", es |-> EntriesOf(S, 0),
               data |-> FmtBlock(EntriesOf(S, 0), interval),
               bi |-> BlockIterOver(FmtBlock(EntriesOf(S, 0), interval)),
               call |-> "none", target |-> << >>, calls |-> 0]
    /\ ReaderIdle
    /\ WriterIdle
    /\ MergerIdle
    /\ SorterIdle /\ DuoIdle

\* bi.seek(target)
BlockSeek ==
    /\ fx.fn = "block_seek"
    /\ fx.calls < MaxBlockCalls
    /\ \E target \in Keys :
         fx' = [fx EXCEPT !.bi = BlockIter_seek(fx.data, fx.bi, target),
                          !.call = "seek", !.target = target, !.calls = @ + 1]
    /\ UNCHANGED << readerVars, writerVars, mergerVars, sorterVars, duo >>

\* bi.next()
BlockNext ==
    /\ fx.fn = "block_seek"
    /\ fx.calls < MaxBlockCalls
    /\ fx' = [fx EXCEPT !.bi = BlockIter_next(fx.data, fx.bi),
                        !.call = "next", !.target = << >>, !.calls = @ + 1]
    /\ UNCHANGED << readerVars, writerVars, mergerVars, sorterVars, duo >>

NextBlockSeek == BlockSeek \/ BlockNext

SpecBlockSeek == InitBlockSeek /\ [][NextBlockSeek]_vars

(***************************************************************************)
(* A BlockIter on a block whose restart array may list entries that are no *)
(* restart points: every entry after the first is written against the key  *)
(* before it, and the restart array holds offset 0 and the offsets of the  *)
(* entries at the positions of marks.  A listed entry that shares a prefix *)
(* with the key before it has shared # 0.                                  *)
(***************************************************************************)
RECURSIVE MarkedBlockFrom(_, _, _, _, _, _)
\* The block of entries es[i..]: [buf, restarts]
MarkedBlockFrom(es, i, marks, last_key, buf, restarts) ==
    IF i > Len(es) THEN [buf |-> buf, restarts |-> restarts]
    ELSE MarkedBlockFrom(es, i + 1, marks, es[i].key,
                         buf \o FmtEntry(CommonPrefix(last_key, es[i].key),
                                         es[i].key, es[i].val),
                         IF i \in marks THEN Append(restarts, Len(buf)) ELSE restarts)

MarkedBlock(es, marks) ==
    LET b == MarkedBlockFrom(es, 1, marks, << >>, << >>, << 0 >>)
    IN  b.buf \o FmtRestarts(b.restarts, 1) \o LE32(Len(b.restarts))

InitCorruptSeek ==
    /\ \E S \in BlockKeySets :
         \E marks \in SUBSET (2..Cardinality(S)) :
            fx = [fn |-> "block_seek", es |-> EntriesOf(S, 0),
                  data |-> MarkedBlock(EntriesOf(S, 0), marks),
                  bi |-> BlockIterOver(MarkedBlock(EntriesOf(S, 0), marks)),
                  call |-> "none", target |-> << >>, calls |-> 0]
    /\ ReaderIdle
    /\ WriterIdle
    /\ MergerIdle
    /\ SorterIdle /\ DuoIdle

\* bi.seek_to_first()
BlockSeekToFirst ==
    /\ fx.fn = "block_seek"
    /\ fx.calls < MaxBlockCalls
    /\ fx' = [fx EXCEPT !.bi = seek_to_first(fx.data, fx.bi),
                        !.call = "seek_to_first", !.target = << >>, !.calls = @ + 1]
    /\ UNCHANGED << readerVars, writerVars, mergerVars, sorterVars, duo >>

NextCorruptSeek == BlockSeek \/ BlockNext \/ BlockSeekToFirst

SpecCorruptSeek == InitCorruptSeek /\ [][NextCorruptSeek]_vars

(***************************************************************************)
(* Block::init on byte strings that need not be blocks: zeros of every     *)
(* length up to MaxRawBlockLen, ended from four bytes on by a count of     *)
(* restarts up to MaxRestartCount, and the blocks of the format.           *)
(***************************************************************************)
MaxRawBlockLen == 16
MaxRestartCount == 4

RawBlocks ==
    { Zeros(n) : n \in 0..3 }
    \cup { Zeros(n - 4) \o LE32(nr) : n \in 4..MaxRawBlockLen, nr \in 0..MaxRestartCount }
    \cup { FmtBlock(EntriesOf(S, 0), interval) :
           S \in { T \in SUBSET Keys : Cardinality(T) <= 2 }, interval \in Intervals }

InitBlockInit ==
    /\ \E d \in RawBlocks :
         fx = [fn |-> "block_init", data |-> d, res |-> [tag |-> "None"], done |-> FALSE]
    /\ ReaderIdle
    /\ WriterIdle
    /\ MergerIdle
    /\ SorterIdle /\ DuoIdle

\* Block::init(data).ok_or(MtblError::InvalidBlock)
BlockInit ==
    /\ fx.fn = "block_init"
    /\ ~fx.done
    /\ fx' = [fx EXCEPT !.res = BlockOrInvalid(Block_init(fx.data, 0, Len(fx.data))),
                        !.done = TRUE]
    /\ UNCHANGED << readerVars, writerVars, mergerVars, sorterVars, duo >>

SpecBlockInit == InitBlockInit /\ [][BlockInit]_vars

(***************************************************************************)
(* compression.rs in every build: features is the set of the cargo         *)
(* features "zlib", "snappy" and "zstd" the crate is compiled with.  The   *)
(* encoders of flate2, snap and zstd are taken as a frame that names its   *)
(* format before the bytes, and the decoders as failing on any other input.*)
(* A result is [tag, bytes] with tag "Ok" or "Io" (an io::Error).          *)
(***************************************************************************)
CompressionZlib == 2
CompressionLz4 == 3
CompressionLz4hc == 4
CompressionZstd == 5

CompressionTypes ==
    { CompressionNone, CompressionSnappy, CompressionZlib, CompressionLz4,
      CompressionLz4hc, CompressionZstd }

CargoFeatures == { "zlib", "snappy", "zstd" }

IoError == [tag |-> "Io", bytes |-> << >>]

\* The bytes a backend's encoder writes for d
BackendEncode(type_, d) == << 100 + type_ >> \o d

\* A backend's decoder on d
BackendDecode(type_, d) ==
    IF Len(d) > 0 /\ d[1] = 100 + type_ THEN [tag |-> "Ok", bytes |-> Tail(d)]
    ELSE IoError

zlib_decompress(features, d) ==
    IF "zlib" \in features THEN BackendDecode(CompressionZlib, d) ELSE IoError

zlib_compress(features, d) ==
    IF "zlib" \in features
    THEN [tag |-> "Ok", bytes |-> BackendEncode(CompressionZlib, d)]
    ELSE IoError

snappy_decompress(features, d) ==
    IF "snappy" \in features THEN BackendDecode(CompressionSnappy, d) ELSE IoError

snappy_compress(features, d) ==
    IF "snappy" \in features
    THEN [tag |-> "Ok", bytes |-> BackendEncode(CompressionSnappy, d)]
    ELSE IoError

zstd_decompress(features, d) ==
    IF "zstd" \in features THEN BackendDecode(CompressionZstd, d) ELSE IoError

\* decompress(type_, d)
compression_decompress(features, type_, d) ==
    IF type_ = CompressionNone THEN [tag |-> "Ok", bytes |-> d]
    ELSE IF type_ = CompressionZlib THEN zlib_decompress(features, d)
    ELSE IF type_ = CompressionSnappy THEN snappy_decompress(features, d)
    ELSE IF type_ = CompressionZstd THEN zstd_decompress(features, d)
    ELSE IoError

\* compress(type_, level, d)
compression_compress(features, type_, d) ==
    IF type_ = CompressionNone THEN [tag |-> "Ok", bytes |-> d]
    ELSE IF type_ = CompressionZlib THEN zlib_compress(features, d)
    ELSE IF type_ = CompressionSnappy THEN snappy_compress(features, d)
    ELSE IoError

MaxPayloadLen == 2

\* The bytes given to compress and decompress: plain bytes and the frames
\* of the three backends
CompressionPayloads == { [i \in 1..n |-> i] : n \in 0..MaxPayloadLen }

CompressionInputs ==
    CompressionPayloads
    \cup { BackendEncode(t, p) :
           t \in { CompressionSnappy, CompressionZlib, CompressionZstd },
           p \in CompressionPayloads }

NoCompressionResult == [tag |-> "None", bytes |-> << >>]

InitCompression ==
    /\ \E features \in SUBSET CargoFeatures, type_ \in CompressionTypes,
          d \in CompressionInputs :
         fx = [fn |-> "compression", features |-> features, type_ |-> type_,
               data |-> d, call |-> "none", res |-> NoCompressionResult,
               back |-> NoCompressionResult]
    /\ ReaderIdle
    /\ WriterIdle
    /\ MergerIdle
    /\ SorterIdle /\ DuoIdle

\* compress(type_, level, &data)
Compress ==
    /\ fx.fn = "compression"
    /\ fx.call = "none"
    /\ fx' = [fx EXCEPT !.call = "compress",
                        !.res = compression_compress(fx.features, fx.type_, fx.data)]
    /\ UNCHANGED << readerVars, writerVars, mergerVars, sorterVars, duo >>

\* decompress(type_, &data)
Decompress ==
    /\ fx.fn = "compression"
    /\ fx.call = "none"
    /\ fx' = [fx EXCEPT !.call = "decompress",
                        !.res = compression_decompress(fx.features, fx.type_, fx.data)]
    /\ UNCHANGED << readerVars, writerVars, mergerVars, sorterVars, duo >>

\* decompress(type_, ..) of the bytes that compress returned
DecompressPacked ==
    /\ fx.fn = "compression"
    /\ fx.call = "compress"
    /\ fx.res.tag = "Ok"
    /\ fx.back.tag = "None"
    /\ fx' = [fx EXCEPT !.back = compression_decompress(fx.features, fx.type_,
                                                        fx.res.bytes)]
    /\ UNCHANGED << readerVars, writerVars, mergerVars, sorterVars, duo >>

NextCompression == Compress \/ Decompress \/ DecompressPacked

SpecCompression == InitCompression /\ [][NextCompression]_vars

(***************************************************************************)
(* The varint decoders on byte strings that need not hold a varint: bytes  *)
(* with the high bit set (129) or clear (1), up to one byte more than the  *)
(* window of the u64 decoder.                                              *)
(***************************************************************************)
MaxVarintLen == 11

VarintBytes == {1, 129}

RECURSIVE VarintStringsOfLen(_)
VarintStringsOfLen(n) ==
    IF n = 0 THEN { << >> }
    ELSE { Append(k, c) : k \in VarintStringsOfLen(n - 1), c \in VarintBytes }

VarintStrings == UNION { VarintStringsOfLen(n) : n \in 0..MaxVarintLen }

NoDecoded == [tag |-> "None", val |-> 0, len |-> 0]

\* What a caller of a decoder has after the call: the decoders return a
\* usize and write *value, or abort.
DecodedAs(o) ==
    IF o.panic THEN [tag |-> "panic", val |-> 0, len |-> 0]
    ELSE [tag |-> "Ok", val |-> o.val, len |-> o.len]

InitVarint ==
    /\ \E d \in VarintStrings :
         fx = [fn |-> "varint_decode", data |-> d, d32 |-> NoDecoded, d64 |-> NoDecoded]
    /\ ReaderIdle
    /\ WriterIdle
    /\ MergerIdle
    /\ SorterIdle /\ DuoIdle

\* varint_decode32(data, &mut value)
Decode32 ==
    /\ fx.fn = "varint_decode"
    /\ fx.d32.tag = "None"
    /\ fx' = [fx EXCEPT !.d32 = DecodedAs(varint_decode32(fx.data, 0, Len(fx.data)))]
    /\ UNCHANGED << readerVars, writerVars, mergerVars, sorterVars, duo >>

\* varint_decode64(data, &mut value)
Decode64 ==
    /\ fx.fn = "varint_decode"
    /\ fx.d64.tag = "None"
    /\ fx' = [fx EXCEPT !.d64 = DecodedAs(varint_decode64(fx.data, 0, Len(fx.data)))]
    /\ UNCHANGED << readerVars, writerVars, mergerVars, sorterVars, duo >>

NextVarint == Decode32 \/ Decode64

SpecVarint == InitVarint /\ [][NextVarint]_vars

\* The users of a merge function: a Merger over tables, or a Sorter
InitMergeUsers == InitMerger \/ InitSorter

NextMergeUsers == NextMerger \/ NextSorter

SpecMergeUsers == InitMergeUsers /\ [][NextMergeUsers]_vars

(***************************************************************************)
(* The properties of the reader                                            *)
(***************************************************************************)
IsPrefixOf(s, t) == Len(s) <= Len(t) /\ SubSeq(t, 1, Len(s)) = s

\* The last next() returned nothing.
Finished == res.tag = "Ok" /\ ~res.some

\* The iterator was created and yields the entries of expected, in order, and
\* then nothing.
Yields(expected) ==
    /\ it.tag = "Ok"
    /\ res.tag # "panic"
    /\ IsPrefixOf(out, expected)
    /\ (Finished => out = expected)

HasKey(key) == \E i \in 1..Len(entries) : entries[i].key = key

\* Every key of the table is smaller than key, and there is one.
PastLastKey(key) ==
    entries # << >> /\ \A i \in 1..Len(entries) : BytesLt(entries[i].key, key)

\* C3: get(k) returns Some(v) if and only if (k, v) is an entry of the table,
\* and None, not an error, for every key that is not in the table.
C3_PointLookup ==
    query.op = "get" =>
        /\ res.tag = "Ok"
        /\ res.some = HasKey(query.a)
        /\ \A i \in 1..Len(entries) : entries[i].key = query.a => res.val = entries[i].val

\* C3: get(k) with k greater than the last key of the table is the error
\* InvalidBlock.
C3_GetPastLastKeyIsError ==
    query.op = "get" /\ PastLastKey(query.a) /\ res.tag = "InvalidBlock"

\* C4: iter_from(k) yields exactly the entries of the table whose key is >= k,
\* in ascending order, for every k.
C4_IterFromSuffix ==
    query.op = "iter_from" =>
        LET AtLeast(e) == BytesLe(query.a, e.key) IN Yields(SelectSeq(entries, AtLeast))

\* C4: iter_from(k) with k greater than every key is the error InvalidBlock
\* and no iterator.
C4_IterFromPastLastKeyIsError ==
    query.op = "iter_from" /\ PastLastKey(query.a) /\ it.tag = "InvalidBlock"

\* C5: iter_prefix(p) yields exactly the entries whose key starts with p, in
\* ascending order, also when no key has the prefix.
C5_IterPrefixExact ==
    query.op = "iter_prefix" =>
        LET Has(e) == starts_with(e.key, query.a) IN Yields(SelectSeq(entries, Has))

\* C5: iter_prefix(p) on a table of which no key has the prefix p, p being
\* greater than the last key, is the error InvalidBlock.
C5_IterPrefixNoMatchIsError ==
    /\ query.op = "iter_prefix"
    /\ PastLastKey(query.a)
    /\ \A i \in 1..Len(entries) : ~starts_with(entries[i].key, query.a)
    /\ it.tag = "InvalidBlock"

\* C6: iter_range(a, b) yields exactly the entries with a <= key <= b, an
\* entry whose key equals b included.
C6_IterRangeInclusive ==
    query.op = "iter_range" =>
        LET In(e) == BytesLe(query.a, e.key) /\ BytesLe(e.key, query.b)
        IN  Yields(SelectSeq(entries, In))

\* C6: iter_range(a, b) with a greater than the last key is the error
\* InvalidBlock.
C6_IterRangePastLastKeyIsError ==
    query.op = "iter_range" /\ PastLastKey(query.a) /\ it.tag = "InvalidBlock"

(***************************************************************************)
(* The properties of the writer                                            *)
(***************************************************************************)
StrictlyAscending(log) ==
    \A i \in 1..(Len(log) - 1) : BytesLt(log[i].key, log[i + 1].key)

RECURSIVE Drain(_, _, _, _)
\* What at most n calls of next() yield before the first that yields nothing
Drain(d, r, iter, n) ==
    IF n = 0 THEN << >>
    ELSE LET x == ReaderIntoIter_next(d, r, iter)
         IN  IF x.panic \/ ~x.item.some THEN << >>
             ELSE << [key |-> x.item.key, val |-> x.item.val] >> \o Drain(d, r, x.it, n - 1)

\* Reader::new(d), into_iter() and next() until it yields nothing
ReadBack(d) ==
    LET r == ReaderBuilder_read(d)
        iter == IF r.tag = "Ok" THEN ReaderIntoIter_new(d, r) ELSE [tag |-> r.tag]
    IN  IF iter.tag # "Ok" THEN [ok |-> FALSE, entries |-> << >>]
        ELSE [ok |-> TRUE, entries |-> Drain(d, r, iter, MaxInserts + 1)]

\* C1: inserting entries with strictly ascending keys, finishing the writer and
\* iterating a Reader of the bytes yields exactly the inserted pairs, in order.
C1_RoundTrip ==
    StrictlyAscending(wlog) =>
        /\ wres.call = "insert" => wres.tag = "Ok"
        /\ wres.call = "into_inner" =>
              wres.tag = "Ok" /\ ReadBack(w.writer) = [ok |-> TRUE, entries |-> wlog]

\* C1: the first insert into a new writer panics in BlockBuilder::add.
C1_FirstInsertPanics ==
    /\ wres.call = "insert" /\ Len(wlog) = 1
    /\ wres.tag = "panic" /\ wres.msg = "index out of range"

\* C2: a writer finished with zero inserts produces bytes that Reader::new
\* accepts, into_iter succeeds on them and the first next() returns nothing.
C2_EmptyTable ==
    (wres.call = "into_inner" /\ wlog = << >>) =>
        wres.tag = "Ok" /\ ReadBack(w.writer) = [ok |-> TRUE, entries |-> << >>]

\* C2: into_inner on a writer without inserts panics in BlockBuilder::finish.
C2_EmptyFinishPanics ==
    wres.call = "into_inner" /\ wlog = << >> /\ wres.tag = "panic"

\* C7: insert of a key <= the last inserted key, after at least one insert,
\* fails with the error value OutOfOrderKey and adds no entry; a first insert
\* is never rejected so.
C7_OutOfOrderKey ==
    wres.call = "insert" =>
        IF wres.had_entries /\ ~wres.after_last
        THEN wres.tag = "Err" /\ wres.msg = "OutOfOrderKey" /\ ~wres.added
        ELSE ~(wres.tag = "Err" /\ wres.msg = "OutOfOrderKey")

\* C7: insert of a key <= the last inserted key panics with "out-of-order key".
C7_OutOfOrderKeyPanics ==
    /\ wres.call = "insert" /\ wres.had_entries /\ ~wres.after_last
    /\ wres.tag = "panic" /\ wres.msg = "out-of-order key" /\ ~wres.added

(***************************************************************************)
(* The properties of the merger                                            *)
(***************************************************************************)
SourceKeys(i) == { srcs[i].entries[j].key : j \in 1..Len(srcs[i].entries) }
AllSourceKeys == UNION { SourceKeys(i) : i \in 1..Len(srcs) }
Holders(key) == { i \in 1..Len(srcs) : key \in SourceKeys(i) }
SourceValue(i, key) ==
    LET j == CHOOSE j \in 1..Len(srcs[i].entries) : srcs[i].entries[j].key = key
    IN  srcs[i].entries[j].val

\* No invocation of merge returned an error.
NoMergeError == \A i \in 1..Len(mcalls) : mcalls[i].ok
\* The last next() of the MergerIter returned nothing.
MergerFinished == mres.tag = "None"
Yielded(key) == \E i \in 1..Len(mout) : mout[i].key = key
DisjointSources ==
    \A i, j \in 1..Len(srcs) : i # j => SourceKeys(i) \cap SourceKeys(j) = {}

\* C8: the merger iterator yields every key of every source exactly once, in
\* strictly ascending order; no key is omitted, the empty key included.
C8_MergerYieldsEveryKey ==
    NoMergeError =>
        /\ \A i \in 1..(Len(mout) - 1) : BytesLt(mout[i].key, mout[i + 1].key)
        /\ MergerFinished =>
              [i \in 1..Len(mout) |-> mout[i].key] = SortKeys(AllSourceKeys)

\* C8: the iteration ended without yielding the empty key that a source holds.
C8_EmptyKeyOmitted ==
    /\ NoMergeError /\ MergerFinished
    /\ << >> \in AllSourceKeys /\ ~Yielded(<< >>)

\* C9: every invocation of merge receives at least two values, and a key held
\* by a single source is yielded with its value unchanged without merge.
C9_MergeReceivesTwo ==
    /\ \A i \in 1..Len(mcalls) : Len(mcalls[i].vals) >= 2
    /\ \A i \in 1..Len(mout) :
          Cardinality(Holders(mout[i].key)) = 1 =>
              /\ mout[i].val = SourceValue(CHOOSE h \in Holders(mout[i].key) : TRUE,
                                           mout[i].key)
              /\ \A c \in 1..Len(mcalls) : mcalls[c].key # mout[i].key

\* C9: merge was invoked with no value at all.
C9_MergeCalledWithoutValues ==
    \E i \in 1..Len(mcalls) : Len(mcalls[i].vals) = 0

\* C10: merging tables with pairwise disjoint key sets yields the sorted union
\* of their entries with unchanged values and never calls merge.
C10_DisjointUnion ==
    DisjointSources =>
        /\ mcalls = << >>
        /\ MergerFinished =>
              LET ks == SortKeys(AllSourceKeys)
              IN  mout = [i \in 1..Len(ks) |->
                            [key |-> ks[i],
                             val |-> SourceValue(CHOOSE h \in Holders(ks[i]) : TRUE, ks[i])]]

\* C10: two disjoint tables were merged to the end and an entry of one of them
\* is missing from the result.
C10_DisjointEntryMissing ==
    /\ Len(srcs) = 2 /\ DisjointSources /\ MergerFinished
    /\ \A i \in 1..2 : srcs[i].entries # << >>
    /\ \E key \in AllSourceKeys : ~Yielded(key)

(***************************************************************************)
(* The properties of the sorter                                            *)
(***************************************************************************)
\* The values given for key, in the order of the inserts
ValuesFor(log, key) == SelectSeq(log, LAMBDA e : e.key = key)

\* The input sorted by key, each group of equal keys collapsed by one
\* application of the (concatenating) merge function
SorterReference(log) ==
    LET ks == SortKeys({ log[i].key : i \in 1..Len(log) })
        vals(k) == [j \in 1..Len(ValuesFor(log, k)) |-> ValuesFor(log, k)[j].val]
    IN  [i \in 1..Len(ks) |->
           [key |-> ks[i],
            val |-> IF Len(vals(ks[i])) = 1 THEN vals(ks[i])[1] ELSE Concat(vals(ks[i]), 1)]]

RECURSIVE MergerDrain(_, _, _)
\* The sequences at most n calls of next() on a MergerIter may yield before
\* the first call that yields no entry
MergerDrain(sources, iter, n) ==
    IF n = 0 THEN { << >> }
    ELSE UNION { IF o.tag # "Some" THEN { << >> }
                 ELSE { << [key |-> o.key, val |-> o.val] >> \o rest :
                        rest \in MergerDrain(sources, o.mi, n - 1) } :
                 o \in MergerIter_next(sources, iter) }

\* C11: whatever was inserted and wherever the sorter spilled, as long as the
\* merge function returned no error every insert returns Ok, into_iter()
\* returns an iterator, and that iterator yields the input sorted by key with
\* each group of equal keys collapsed by one application of merge.
C11_SorterEquivalence ==
    (sres.call \in {"insert", "into_iter"} /\ sres.clean) =>
        /\ sres.tag = "Ok"
        /\ sres.call = "into_iter" =>
              \A seq \in MergerDrain(sres.srcs, sres.mi, MaxSorterInserts + 1) :
                 seq = SorterReference(slog)

\* into_iter() was called after inserts whose keys were all different, no
\* merge was invoked, and the call panicked.
C11_IntoIterPanics ==
    /\ sres.call = "into_iter"
    /\ Len(slog) >= 2
    /\ \A i, j \in 1..Len(slog) : i # j => slog[i].key # slog[j].key
    /\ sres.calls = << >>
    /\ sres.tag = "panic"

\* The invocations of the merge function among calls that returned an error
FailedCalls(calls) == { i \in 1..Len(calls) : ~calls[i].ok }

\* C12: when the merge function returned an error during a call of next() on
\* the merger iterator, or during insert, into_iter or write_into on the
\* sorter, that call returned Merge(e) with e the very error value the merge
\* function returned.
C12_MergeErrorPropagated ==
    /\ \A i \in FailedCalls(mres.calls) :
          mres.tag = "Err" /\ mres.err = mres.calls[i].err
    /\ \A i \in FailedCalls(sres.calls) :
          sres.tag = "Merge" /\ sres.err = sres.calls[i].err

\* next() on the merger iterator invoked merge for a key that two sources
\* hold, merge returned an error, and next() returned Merge of that error.
C12_MergeErrorReturned ==
    /\ mres.tag = "Err"
    /\ Len(mres.calls) = 1
    /\ ~mres.calls[1].ok
    /\ Len(mres.calls[1].vals) >= 2
    /\ mres.err = UserError(mres.calls[1].key, mres.calls[1].vals)

(***************************************************************************)
(* The properties of bytes_shortest_separator                              *)
(***************************************************************************)
\* C13: for start < limit the call returns without a failed assertion or an
\* access out of bounds, and leaves in start a string that is at least the
\* original start and less than limit.
C13_SeparatorBetween ==
    (fx.fn = "bytes_shortest_separator" /\ fx.done /\ BytesLt(fx.start, fx.limit)) =>
        /\ ~fx.panic
        /\ BytesLe(fx.start, fx.result)
        /\ BytesLt(fx.result, fx.limit)

\* The call was made with start < limit, took the branch of the 16-bit
\* arithmetic with a carry into the high byte, and appended the two bytes.
C13_SeparatorAppended ==
    /\ fx.fn = "bytes_shortest_separator" /\ fx.done /\ ~fx.panic
    /\ BytesLt(fx.start, fx.limit)
    /\ Len(fx.result) = Len(fx.start) + 2
    /\ fx.result[Len(fx.result)] = 0

(***************************************************************************)
(* The properties of tables written with different block sizes            *)
(***************************************************************************)
\* The block sizes a WriterBuilder is given
WriterBlockSizes == { MIN_BLOCK_SIZE, DEFAULT_BLOCK_SIZE }

RECURSIVE WriteLog(_, _, _)
\* writer.insert of log[i], log[i + 1], .. in order and writer.into_inner():
\* the outcomes [tag, bytes]
WriteLog(wr, log, i) ==
    IF i > Len(log)
    THEN LET Closed(r) ==
                 [tag |-> r.tag, bytes |-> IF r.tag = "Ok" THEN r.w.writer ELSE << >>]
         IN  { Closed(Writer_into_inner(wr)) }
    ELSE UNION { IF o.tag # "Ok" THEN { [tag |-> o.tag, bytes |-> << >>] }
                 ELSE WriteLog(o.w, log, i + 1) :
                 o \in Writer_insert(wr, log[i].key, log[i].val) }

\* The outcomes of writing log with a Writer of the given block size
WrittenWith(block_size, interval, log) ==
    WriteLog(WriterBuilder_build(block_size, interval, CompressionNone), log, 1)

\* What an iterator yields until it yields nothing
Answers(d, r, iter) ==
    IF iter.tag # "Ok" THEN [tag |-> iter.tag, entries |-> << >>]
    ELSE [tag |-> "Ok", entries |-> Drain(d, r, iter, MaxInserts + 1)]

\* What a Reader of the bytes d answers to iter(), get(k), iter_from(k),
\* iter_prefix(p) and iter_range(a, b), for every argument
Observed(d) ==
    LET r == ReaderBuilder_read(d)
    IN  IF r.tag # "Ok" THEN [tag |-> r.tag]
        ELSE [tag |-> "Ok",
              iter |-> Answers(d, r, ReaderIntoIter_new(d, r)),
              get |-> [k \in Keys |-> Reader_get(d, r, k)],
              iter_from |-> [k \in Keys |-> Answers(d, r, ReaderIntoIter_new_from(d, r, k))],
              iter_prefix |->
                  [k \in Keys |-> Answers(d, r, ReaderIntoIter_new_get_prefix(d, r, k))],
              iter_range |->
                  [q \in Keys \X Keys |->
                      Answers(d, r, ReaderIntoIter_new_get_range(d, r, q[1], q[2]))]]

\* C14: the entries of a strictly ascending log, written by writers of
\* different block sizes, give tables that answer iter(), get, iter_from,
\* iter_prefix and iter_range alike for every argument.
C14_BlockSizeNeutral ==
    (wres.call = "into_inner" /\ StrictlyAscending(wlog)) =>
        \A bs \in WriterBlockSizes :
           \A o \in WrittenWith(bs, w.data.block_restart_interval, wlog) :
              \A p \in WrittenWith(DEFAULT_BLOCK_SIZE \div 8,
                                   w.data.block_restart_interval, wlog) :
                 /\ o.tag = "Ok"
                 /\ p.tag = "Ok"
                 /\ Observed(o.bytes) = Observed(p.bytes)

\* Two entries with ascending keys were given to the writer, and a writer of
\* any block size panics on them: there is no table to compare.
C14_NoTableAtAnySize ==
    /\ wres.call = "into_inner"
    /\ Len(wlog) = 2
    /\ StrictlyAscending(wlog)
    /\ \A bs \in WriterBlockSizes :
          \A o \in WrittenWith(bs, w.data.block_restart_interval, wlog) : o.tag = "panic"

(***************************************************************************)
(* The properties of seek on a table iterator                              *)
(***************************************************************************)
\* The positions of the entries of the table whose key is at least key
AtLeast(key) == { i \in 1..Len(entries) : BytesLe(key, entries[i].key) }

\* The first entry of the table whose key is at least key
FirstAtLeast(key) == entries[CHOOSE i \in AtLeast(key) : \A j \in AtLeast(key) : i <= j]

\* C15: the call of next() that follows seek(k) yields the first entry of the
\* table whose key is at least k, and nothing when there is no such entry.
C15_SeekThenNext ==
    [][(res.tag = "Sought" /\ query' = query /\ res' # res) =>
          /\ res'.tag = "Ok"
          /\ IF AtLeast(query.a) = {} THEN ~res'.some
             ELSE res'.some /\ out' = << FirstAtLeast(query.a) >>]_vars

\* seek(k) was called with a key k of the table, and the first entry that
\* next() yielded after it has a greater key.
C15_SeekSkipsKey ==
    /\ query.op = "seek"
    /\ HasKey(query.a)
    /\ Len(out) = 1
    /\ BytesLt(query.a, out[1].key)

(***************************************************************************)
(* The properties of Reader::new                                           *)
(***************************************************************************)
Opened == rd.tag # "None"

\* The trailer of the file, when the file has one
TrailerOf(d) == Metadata_read_from_bytes(d, Len(d) - METADATA_SIZE)

HasTrailer == Len(data) >= METADATA_SIZE /\ TrailerOf(data).tag = "Ok"

\* The wrapper of the index block that the trailer points to
IndexWrapper(d) ==
    WrapperLength(d, TrailerOf(d).file_version, TrailerOf(d).index_block_offset)

\* The trailer is valid, its offset is within the bound the reader checks, and
\* the wrapper there holds an index block of n bytes that lie in the file.
IndexBlockOfLen(n) ==
    /\ HasTrailer
    /\ TrailerOf(data).index_block_offset <= Len(data) - METADATA_SIZE - 13
    /\ IndexWrapper(data).tag = "Ok"
    /\ IndexWrapper(data).len = n
    /\ TrailerOf(data).index_block_offset + IndexWrapper(data).len_len + 4 + n <= Len(data)

\* C16: for an input of 512 bytes or more with a valid trailer, the bound
\* |data| - 512 - 16 is computed without underflow and Reader::new fails with
\* InvalidIndexBlockOffset when index_block_offset is greater than it.
C16_IndexOffsetBound ==
    (Opened /\ HasTrailer) =>
        /\ rd.tag # "overflow"
        /\ (TrailerOf(data).index_block_offset > Len(data) - METADATA_SIZE - 16
              => rd.tag = "InvalidIndexBlockOffset")

\* The file has 16 bytes or more before the trailer, index_block_offset is
\* greater than |data| - 512 - 16, and Reader::new did not fail with
\* InvalidIndexBlockOffset.
C16_OffsetPastBoundAccepted ==
    /\ Opened /\ HasTrailer
    /\ Len(data) >= METADATA_SIZE + 16
    /\ TrailerOf(data).index_block_offset > Len(data) - METADATA_SIZE - 16
    /\ rd.tag \notin {"InvalidIndexBlockOffset", "overflow"}

\* C17: Reader::new aborts on no input; it returns InvalidMetadataSize for
\* less than 512 bytes, InvalidFormatVersion for a magic number that is
\* neither constant, InvalidCompressionAlgorithm for an identifier outside
\* 0..5, and InvalidBlock for an index block of less than 8 bytes.
C17_ErrorsNotAborts ==
    Opened =>
        /\ rd.tag \notin {"panic", "overflow"}
        /\ Len(data) < METADATA_SIZE => rd.tag = "InvalidMetadataSize"
        /\ (Len(data) >= METADATA_SIZE
              /\ read_u32(data, Len(data) - 4) \notin {MTBL_MAGIC_V1, MTBL_MAGIC})
             => rd.tag = "InvalidFormatVersion"
        /\ (Len(data) >= METADATA_SIZE
              /\ read_u32(data, Len(data) - 4) \in {MTBL_MAGIC_V1, MTBL_MAGIC}
              /\ read_u64(data, Len(data) - METADATA_SIZE + 16) \notin 0..5)
             => rd.tag = "InvalidCompressionAlgorithm"
        /\ (\E n \in 0..7 : IndexBlockOfLen(n)) => rd.tag = "InvalidBlock"

\* The trailer is valid and points to an index block of 4 to 7 bytes, and
\* Reader::new panicked.
C17_ShortIndexPanics ==
    /\ Opened
    /\ \E n \in 4..7 : IndexBlockOfLen(n)
    /\ rd.tag = "panic"

(***************************************************************************)
(* The properties of the chunks of the sorter                              *)
(***************************************************************************)
\* The last call on the sorter went through write_chunk: it drained the
\* entries.
Spilled == sres.call # "none" /\ sorter.entries = << >>

\* C18: when a call on the sorter has spilled, and merge returned no error,
\* the sorter holds at least the chunk of that spill and at most
\* max_nb_chunks chunks, and into_iter() attaches at most max_nb_chunks
\* chunks to the final merger.
C18_ChunkBound ==
    (Spilled /\ sres.clean) =>
        /\ sres.tag = "Ok"
        /\ Len(sorter.chunks) >= 1
        /\ Len(sorter.chunks) <= sorter.max_nb_chunks
        /\ Len(sres.srcs) <= sorter.max_nb_chunks

\* An insert reached max_memory and spilled two entries with different keys;
\* the call panicked, the entries are gone and the sorter holds no chunk.
C18_SpillLeavesNoChunk ==
    /\ sres.call = "insert"
    /\ Spilled
    /\ Len(slog) = 2 /\ slog[1].key # slog[2].key
    /\ sres.tag = "panic"
    /\ sorter.chunks = << >>

(***************************************************************************)
(* The properties of two iterators over one reader                         *)
(***************************************************************************)
RECURSIVE AloneFrom(_, _, _, _, _, _)
\* The calls ops[i], ops[i + 1], .. made on an iterator that no other call
\* comes between: [it, results]
AloneFrom(d, r, iter, ops, i, results) ==
    IF i > Len(ops) THEN [it |-> iter, results |-> results]
    ELSE LET Then(c) == AloneFrom(d, r, c.it, ops, i + 1, Append(results, c.result))
         IN  Then(DuoCall(d, r, iter, ops[i]))

\* The calls ops made on a fresh iterator of the reader
Alone(d, r, ops) == AloneFrom(d, r, ReaderIntoIter_new(d, r), ops, 1, << >>)

Terminator(d, window) ==
    LET stop == { i \in 1..Min(Len(d), window) : d[i] < 128 }
    IN  IF stop = {} THEN 0 ELSE CHOOSE i \in stop : \A j \in stop : i <= j

RECURSIVE VarintValue(_, _)
\* The value of the varint in the first n bytes of d: seven bits a byte, the
\* low bits first.
VarintValue(d, n) ==
    IF n = 0 THEN 0 ELSE VarintValue(d, n - 1) + (d[n] % 128) * 2 ^ (7 * (n - 1))

\* The decoded result r of d is what is stated for a window: InvalidVarint
\* on a malformed d, else the bytes consumed and (where it fits the model's
\* integers) the value.
DecodedRight(d, r, window) ==
    IF Terminator(d, window) = 0 THEN r.tag = "InvalidVarint"
    ELSE /\ r.tag = "Ok"
         /\ r.len = Terminator(d, window)
         /\ r.len <= window
         /\ r.len <= 4 => r.val = VarintValue(d, r.len)

\* C20: a varint decoder fails with InvalidVarint when no byte with the
\* high bit clear occurs in its window (5 bytes for u32, 10 for u64) or
\* before the input ends, and never returns a value or reads out of bounds
\* then; on well-formed input it returns the value and the number of bytes
\* consumed, at most 5 resp. 10.
C20_VarintDecoding ==
    fx.fn = "varint_decode" =>
        /\ fx.d32.tag # "None" => DecodedRight(fx.data, fx.d32, 5)
        /\ fx.d64.tag # "None" => DecodedRight(fx.data, fx.d64, 10)

\* Both decoders returned a value and 0 bytes consumed for a byte string
\* with no terminating byte.
C20_MalformedDecoded ==
    /\ fx.fn = "varint_decode"
    /\ fx.data = << 129, 129 >>
    /\ fx.d32 = [tag |-> "Ok", val |-> 1, len |-> 0]
    /\ fx.d64 = [tag |-> "Ok", val |-> 1, len |-> 0]

(***************************************************************************)
(* The properties of the index of a finished table                         *)
(***************************************************************************)
RECURSIVE EntriesFrom(_, _, _)
\* What get() and next() of a placed BlockIter yield, n entries at most
EntriesFrom(d, bi, n) ==
    IF n = 0 \/ ~valid(bi) THEN << >>
    ELSE << BlockIter_get(d, bi) >> \o EntriesFrom(d, BlockIter_next(d, bi), n - 1)

\* The entries of a block, read from its first one
BlockEntries(d, b, n) ==
    LET From(bi) == IF bi.tag # "ok" THEN << >> ELSE EntriesFrom(d, seek_to_first(d, bi), n)
    IN  From(BlockIter_init(d, b))

\* The index entries of the table d
IndexEntries(d) ==
    LET Of(r) == IF r.tag # "Ok" THEN << >> ELSE BlockEntries(d, r.index, MaxInserts + 1)
    IN  Of(ReaderBuilder_read(d))

\* The offset an index value decodes to
IndexedOffset(val) == varint_decode64(val, 0, Len(val)).val

\* The entries of the data block of the table d whose wrapper starts at offset
DataBlockAt(d, offset) ==
    LET Of(b) == IF b.tag # "Ok" THEN << >> ELSE BlockEntries(d, b.block, MaxInserts + 1)
    IN  Of(Reader_block(d, ReaderBuilder_read(d), offset))

\* The index keys ix of the data blocks bs separate them, and the last one is
\* the last key of the table.
Separates(ix, bs) ==
    /\ \A i \in 1..Len(ix) :
          /\ bs[i] # << >>
          /\ BytesLe(bs[i][Len(bs[i])].key, ix[i].key)
          /\ i < Len(ix) => bs[i + 1] # << >> /\ BytesLt(ix[i].key, bs[i + 1][1].key)
    /\ ix # << >> => ix[Len(ix)].key = bs[Len(ix)][Len(bs[Len(ix)])].key
    /\ \A i \in 1..(Len(ix) - 1) : BytesLt(ix[i].key, ix[i + 1].key)

SeparatedTable(d) ==
    Separates(IndexEntries(d),
              [i \in 1..Len(IndexEntries(d)) |->
                 DataBlockAt(d, IndexedOffset(IndexEntries(d)[i].val))])

\* C21: a writer given entries with strictly ascending keys finishes a table
\* in which every index key is at least the last key of its data block and
\* less than the first key of the next one, the last index key is the last
\* key of the table, and the index keys are strictly ascending.
C21_IndexSeparators ==
    (wres.call = "into_inner" /\ StrictlyAscending(wlog) /\ wlog # << >>) =>
        /\ wres.tag = "Ok"
        /\ IndexEntries(w.writer) # << >>
        /\ SeparatedTable(w.writer)

\* The writer was finished after two inserts of ascending keys: no key ever
\* reached the index builder and no byte the output.
C21_NoIndexKeyWritten ==
    /\ wres.call = "into_inner" /\ wres.tag = "panic"
    /\ Len(wlog) = 2 /\ StrictlyAscending(wlog)
    /\ w.index.buf = << >> /\ w.index.last_key = << >>
    /\ w.writer = << >>

RECURSIVE BlockStart(_, _)
\* The offset at which the wrapper of the i-th block of the file d starts,
\* the wrappers following each other from offset 0
BlockStart(d, i) ==
    IF i = 1 THEN 0
    ELSE LET After(off, wr) == off + wr.len_len + 4 + wr.len
             Next(off) == After(off, WrapperLength(d, "FormatV2", off))
         IN  Next(BlockStart(d, i - 1))

RECURSIVE DataBlocksFrom(_, _, _)
\* The entries of the data blocks the index entries ix[i], ix[i + 1], ..
\* point to, one after the other
DataBlocksFrom(d, ix, i) ==
    IF i > Len(ix) THEN << >>
    ELSE DataBlockAt(d, IndexedOffset(ix[i].val)) \o DataBlocksFrom(d, ix, i + 1)

\* The index ix of the file d holds one entry for each of its n data blocks,
\* in block order, each with the offset of the block's wrapper; no block is
\* empty and together they hold the entries of log.
IndexComplete(d, ix, n, log) ==
    /\ Len(ix) = n
    /\ \A i \in 1..Len(ix) :
          /\ IndexedOffset(ix[i].val) = BlockStart(d, i)
          /\ DataBlockAt(d, BlockStart(d, i)) # << >>
    /\ DataBlocksFrom(d, ix, 1) = [i \in 1..Len(log) |-> [some |-> TRUE, key |-> log[i].key,
                                                         val |-> log[i].val]]

\* C22: after finish, the index block holds exactly one entry per emitted
\* data block, in block order, whose value decodes to the offset at which
\* the wrapper of that block starts; no data block is empty, and
\* count_data_blocks is the number of index entries.
C22_IndexComplete ==
    (wres.call = "into_inner" /\ StrictlyAscending(wlog)) =>
        /\ wres.tag = "Ok"
        /\ IndexComplete(w.writer, IndexEntries(w.writer), w.metadata.count_data_blocks, wlog)

\* Three entries were counted, one of them as large as a block, and no data
\* block was emitted when the writer was finished.
C22_NoBlockEmitted ==
    /\ wres.call = "into_inner" /\ wres.tag = "panic"
    /\ StrictlyAscending(wlog)
    /\ \E i \in 1..Len(wlog) : Len(wlog[i].val) = BigValueLen
    /\ w.metadata.count_entries = 3
    /\ w.metadata.count_data_blocks = 0
    /\ is_emtpy(w.data)

(***************************************************************************)
(* The properties of the writer's fields                                   *)
(***************************************************************************)
\* The last call was made after inserts of strictly ascending keys only.
AscendingCall == wres.call # "none" /\ StrictlyAscending(wlog)

OffsetsAccount(wr) ==
    /\ wr.pending_offset = Len(wr.writer)
    /\ wr.pending_offset = wr.metadata.bytes_data_blocks
    /\ wr.metadata.count_data_blocks > 0 =>
          wr.last_offset = BlockStart(wr.writer, wr.metadata.count_data_blocks)

\* C24: after every insert of an ascending key the writer's offsets account
\* for the bytes written, and the finish that follows writes a trailer whose
\* index_block_offset is the sum of the wrapped sizes of the data blocks.
C24_OffsetAccounting ==
    /\ (wres.call = "insert" /\ StrictlyAscending(wlog)) =>
          wres.tag = "Ok" /\ OffsetsAccount(w)
    /\ (wres.call = "into_inner" /\ StrictlyAscending(wlog)) =>
          /\ wres.tag = "Ok"
          /\ Len(w.writer) >= METADATA_SIZE
          /\ TrailerOf(w.writer).tag = "Ok"
          /\ TrailerOf(w.writer).index_block_offset =
                BlockStart(w.writer, w.metadata.count_data_blocks + 1)
          /\ TrailerOf(w.writer).index_block_offset = w.metadata.bytes_data_blocks

\* The writer was finished after an insert and wrote no trailer: its sink is
\* empty and its offsets are those of a new writer.
C24_NoTrailerWritten ==
    /\ wres.call = "into_inner" /\ wres.tag = "panic"
    /\ Len(wlog) = 1
    /\ Len(w.writer) < METADATA_SIZE
    /\ w.pending_offset = 0 /\ w.last_offset = 0
    /\ w.metadata.index_block_offset = 0 /\ w.metadata.bytes_data_blocks = 0

(***************************************************************************)
(* The properties of the table iterator's block offset                     *)
(***************************************************************************)
\* The data block whose wrapper starts at the offset the iterator recorded
RecordedBlock == Reader_block(data, rd, it.block_offset)

\* The iterator holds a data block iterator.
HasIterator == it.tag = "Ok" /\ res.tag # "panic"

\* The offset in the index entry the index iterator is on
PointedOffset ==
    varint_decode64(data, it.index_iter.block.start + it.index_iter.val_off,
                    it.index_iter.block.start + it.index_iter.val_off
                    + it.index_iter.val_len).val

\* C25: in every state of a table iterator (after iter, iter_from, next and
\* seek) the recorded block_offset is the file offset of the data block that
\* its data block iterator has loaded.
C25_BlockOffsetTracked ==
    HasIterator => RecordedBlock = [tag |-> "Ok", block |-> it.bi.block]

\* A seek found the target's block at the recorded offset and skipped the
\* decoding, while the loaded data block is another one.
C25_SeekKeptOtherBlock ==
    /\ HasIterator
    /\ query.op = "seek" /\ res.tag = "Sought"
    /\ valid(it.index_iter)
    /\ PointedOffset = it.block_offset
    /\ RecordedBlock.tag = "Ok"
    /\ RecordedBlock.block # it.bi.block

(***************************************************************************)
(* The properties of the block builder                                     *)
(***************************************************************************)
\* The last call of the builder was add / finish.
Added == fx.fn = "block_builder" /\ fx.res.call = "add"
Finishing == fx.fn = "block_builder" /\ fx.res.call = "finish"

\* The key and the value of the last add
AddedKey == fx.log[Len(fx.log)].key
AddedVal == fx.log[Len(fx.log)].val

\* The last add recorded a restart offset.
Restarted == Len(fx.bb.restarts) = Len(fx.before.restarts) + 1

\* The prefix the entry of the last add shares with the key before it: none
\* at a restart point
SharedOfAdded ==
    IF fx.before.counter < fx.before.block_restart_interval
    THEN CommonPrefix(fx.before.last_key, AddedKey)
    ELSE 0

\* What the last add put at the end of the buffer
AppendedBytes == SubSeq(fx.bb.buf, Len(fx.before.buf) + 1, Len(fx.bb.buf))

\* C26: add records a new restart offset, the length of the buffer, exactly
\* when restart_interval entries were added since the last restart; the
\* entry at a restart point is stored with shared = 0 and every other entry
\* with the length of the longest prefix it has in common with the key
\* before it; the recorded restart offsets start at 0 and strictly increase.
C26_RestartSpacing ==
    fx.fn = "block_builder" =>
        /\ Added =>
              /\ ~fx.res.panic
              /\ Restarted <=> fx.before.counter = fx.before.block_restart_interval
              /\ Restarted => fx.bb.restarts[Len(fx.bb.restarts)] = Len(fx.before.buf)
              /\ IsPrefixOf(FmtVarint(SharedOfAdded), AppendedBytes)
        /\ fx.bb.restarts[1] = 0
        /\ \A i \in 1..(Len(fx.bb.restarts) - 1) : fx.bb.restarts[i] < fx.bb.restarts[i + 1]

\* A builder of restart interval 0 recorded the offset 0 a second time on
\* its first add, and stored no entry.
C26_RestartRepeated ==
    /\ Added /\ Len(fx.log) = 1
    /\ fx.bb.block_restart_interval = 0
    /\ fx.bb.restarts = << 0, 0 >>
    /\ fx.res.panic /\ fx.bb.buf = << >>

\* C27: add appends one entry record to the end of the buffer - varint(shared),
\* varint(non_shared), varint(value_len), the key suffix, the value - and
\* leaves the bytes of the earlier entries as they were.
C27_AddAppendsRecord ==
    Added =>
        /\ ~fx.res.panic
        /\ fx.bb.buf = fx.before.buf \o FmtEntry(SharedOfAdded, AddedKey, AddedVal)
        /\ fx.bb.last_key = AddedKey

\* An add of a key of two bytes and a value of one byte left the buffer
\* empty: it panicked before the key suffix and the value were appended.
C27_NothingAppended ==
    /\ Added /\ fx.res.panic
    /\ Len(AddedKey) = 2 /\ Len(AddedVal) = 1
    /\ fx.bb.buf = << >> /\ fx.bb.last_key = << >>

ReadRestarts(content) ==
    LET Of(bi) ==
            IF bi.tag # "ok" THEN << >>
            ELSE [i \in 1..bi.num_restarts |-> restart_point(content, bi, i - 1)]
        In(b) == IF b.tag # "ok" THEN << >> ELSE Of(BlockIter_init(content, b))
    IN  In(Block_init(content, 0, Len(content)))

\* C29: finish returns the entries followed by the restart offsets in order
\* (4 bytes each for a block of the model's size) and the restart count,
\* which is at least 1, a block of at least 8 bytes; the block reader finds
\* the same restart offsets in it.
C29_RestartArray ==
    Finishing =>
        /\ ~fx.res.panic
        /\ fx.res.content = fx.before.buf \o FmtRestarts(fx.before.restarts, 1)
                            \o LE32(Len(fx.before.restarts))
        /\ Len(fx.before.restarts) >= 1
        /\ Len(fx.res.content) >= 8
        /\ ReadRestarts(fx.res.content) = fx.before.restarts

\* finish on a new builder returned no block: it panicked at the first
\* restart offset.
C29_FinishPanics ==
    /\ Finishing /\ fx.res.panic
    /\ fx.log = << >>
    /\ fx.res.content = << >>
    /\ ~fx.bb.finished

(***************************************************************************)
(* The properties of the block iterator                                    *)
(***************************************************************************)
\* The last call on the block iterator was seek.
Sought == fx.fn = "block_seek" /\ fx.call = "seek"

\* The positions of the entries of the block whose key is >= the target
NotBelowTarget == { i \in 1..Len(fx.es) : BytesLe(fx.target, fx.es[i].key) }

FirstNotBelowTarget == CHOOSE i \in NotBelowTarget : \A j \in NotBelowTarget : i <= j

\* C30: on a well-formed block with ascending keys, seek(target) returns
\* (for every restart count of the blocks, 1 and more) and leaves the
\* iterator on the first entry whose key is >= target, with the whole key
\* of that entry, or invalid when every key is < target.
C30_BlockSeek ==
    Sought =>
        /\ ~fx.bi.panicked
        /\ IF NotBelowTarget = {} THEN ~valid(fx.bi)
           ELSE /\ valid(fx.bi)
                /\ BlockIter_get(fx.data, fx.bi) =
                      [some |-> TRUE, key |-> fx.es[FirstNotBelowTarget].key,
                       val |-> fx.es[FirstNotBelowTarget].val]

\* A seek in a block of two restart points found the fourth entry, which is
\* no restart point and shares a prefix with the key before it.
C30_SeekFoundSharedKey ==
    /\ Sought /\ valid(fx.bi)
    /\ fx.bi.num_restarts = 2
    /\ Len(fx.es) = 4
    /\ fx.bi.key = fx.es[4].key
    /\ CommonPrefix(fx.es[3].key, fx.es[4].key) > 0
    /\ fx.bi.restart_index = 1

(***************************************************************************)
(* The properties of the block iterator on a corrupt restart array         *)
(***************************************************************************)
\* The binary search of the last seek visited a restart-point entry whose
\* shared prefix length is not 0.  (The search reads the block and the
\* restart array only, which no call changes.)
VisitedSharedRestart ==
    /\ Sought
    /\ SeekRestart(fx.data, fx.bi, fx.target, 0, fx.bi.num_restarts - 1) = -1

\* C31: when seek visits a restart-point entry whose shared prefix length is
\* not 0, the block iterator is invalid afterwards (get returns nothing),
\* whatever position it held before the seek.
C31_CorruptRestartInvalidates ==
    VisitedSharedRestart =>
        /\ ~valid(fx.bi)
        /\ ~BlockIter_get(fx.data, fx.bi).some

\* A seek that visited such an entry returned with the iterator still on the
\* entry it held before, and get returns that entry.
C31_CorruptSeekStayedValid ==
    /\ VisitedSharedRestart
    /\ ~fx.bi.panicked
    /\ valid(fx.bi)
    /\ BlockIter_get(fx.data, fx.bi).some
    /\ BytesLt(BlockIter_get(fx.data, fx.bi).key, fx.target)

(***************************************************************************)
(* The properties of Block::init                                           *)
(***************************************************************************)
BlockInitDone == fx.fn = "block_init" /\ fx.done

\* The bytes are shorter than two u32, or the restart array of 4-byte
\* offsets that the count of restarts asks for, with the count itself, is
\* longer than the bytes.
MalformedBlock(d) ==
    \/ Len(d) < 8
    \/ read_u32(d, Len(d) - 4) * 4 + 4 > Len(d)

\* C32: block initialisation on bytes shorter than 8, or whose restart count
\* times the restart width plus 4 exceeds the block length, marks the block
\* invalid (InvalidBlock), without integer underflow, failed assertion or
\* out-of-range read.
C32_MalformedBlockRejected ==
    (BlockInitDone /\ MalformedBlock(fx.data)) => fx.res.tag = "InvalidBlock"

\* Block::init was given five bytes and a failed assertion ended it.
C32_ShortBlockPanics ==
    /\ BlockInitDone
    /\ Len(fx.data) = 5
    /\ fx.res.tag = "panic"

(***************************************************************************)
(* The two-byte fallback of bytes_shortest_separator                       *)
(***************************************************************************)
\* The call was made with start < limit, the strings differ at an index d
\* that both have, the increment of the byte at d does not apply, and both
\* strings have two bytes or more from d.
TwoByteCase ==
    /\ fx.fn = "bytes_shortest_separator" /\ fx.done
    /\ BytesLt(fx.start, fx.limit)
    /\ CommonPrefix(fx.start, fx.limit) < Min(Len(fx.start), Len(fx.limit))
    /\ ~(/\ fx.start[CommonPrefix(fx.start, fx.limit) + 1] < 255
         /\ fx.start[CommonPrefix(fx.start, fx.limit) + 1] + 1
               < fx.limit[CommonPrefix(fx.start, fx.limit) + 1])
    /\ Len(fx.start) - CommonPrefix(fx.start, fx.limit) >= 2
    /\ Len(fx.limit) - CommonPrefix(fx.start, fx.limit) >= 2

\* start with the big-endian u16 at d replaced by u_b = u_s + 1
TwoByteCandidate ==
    SubSeq(fx.start, 1, CommonPrefix(fx.start, fx.limit))
    \o BE16((read_u16_be(fx.start, CommonPrefix(fx.start, fx.limit)) + 1) % 65536)
    \o SubSeq(fx.start, CommonPrefix(fx.start, fx.limit) + 3, Len(fx.start))

\* u_s <= u_b <= u_l, and the candidate is below limit
TwoByteCandidateKept ==
    /\ read_u16_be(fx.start, CommonPrefix(fx.start, fx.limit)) < 65535
    /\ read_u16_be(fx.start, CommonPrefix(fx.start, fx.limit)) + 1
          <= read_u16_be(fx.limit, CommonPrefix(fx.start, fx.limit))
    /\ BytesLt(TwoByteCandidate, fx.limit)

\* C33: when the one-byte increment does not apply and start and limit both
\* have at least two bytes from the first differing index d, the candidate
\* u_b = u_s + 1 with u_s <= u_b <= u_l is written over start[d..d+2] (the
\* length of start does not change), and a candidate that would make
\* start >= limit is discarded (start keeps its value).
C33_TwoByteFallback ==
    TwoByteCase =>
        /\ ~fx.panic
        /\ Len(fx.result) = Len(fx.start)
        /\ fx.result = IF TwoByteCandidateKept THEN TwoByteCandidate ELSE fx.start

\* The two-byte case with a candidate that is kept: the call left in start
\* the original bytes and two more.
C33_TwoBytesAppended ==
    /\ TwoByteCase
    /\ TwoByteCandidateKept
    /\ ~fx.panic
    /\ Len(fx.result) = Len(fx.start) + 2
    /\ SubSeq(fx.result, 1, Len(fx.start)) = fx.start

(***************************************************************************)
(* The heap of the MergerIter between two calls of next()                  *)
(***************************************************************************)
\* The cursor e holds entry j of its source, and its iterator goes on with
\* the entries after j.
HoldsEntry(e, j) ==
    /\ srcs[e.src].entries[j] = [key |-> e.key, val |-> e.val]
    /\ Drain(srcs[e.src].data, srcs[e.src].rd, e.iter, MaxSourceEntries + 1)
          = SubSeq(srcs[e.src].entries, j + 1, Len(srcs[e.src].entries))

\* C34: between calls of next(), every cursor in the heap holds a current
\* (key, value) of its source that has not been yielded yet; so a cursor
\* whose source is exhausted is not in the heap, and a source that is empty
\* at construction never is.  A source has one cursor at most.
C34_HeapHoldsCurrent ==
    (mi.tag = "Ok" /\ mres.tag # "panic") =>
        /\ \A e \in mi.heap :
              /\ ~Yielded(e.key)
              /\ \E j \in 1..Len(srcs[e.src].entries) : HoldsEntry(e, j)
        /\ \A e \in mi.heap : \A o \in mi.heap : e.src = o.src => e = o

\* After the first entry was yielded one source of two is exhausted and has
\* no cursor, and the other one's cursor holds its second entry.
C34_ExhaustedCursorRemoved ==
    /\ mi.tag = "Ok" /\ Len(srcs) = 2 /\ Len(mout) = 1
    /\ Cardinality(mi.heap) = 1
    /\ \E i \in 1..2 : /\ Len(srcs[i].entries) = 1
                       /\ Yielded(srcs[i].entries[1].key)
                       /\ \A e \in mi.heap : /\ e.src # i
                                              /\ Len(srcs[e.src].entries) = 2
                                              /\ HoldsEntry(e, 2)

(***************************************************************************)
(* The MergerIter after an error or after its end                          *)
(***************************************************************************)
\* The last next() returned nothing, or an error, and no source has an entry
\* left.
MergerEnded ==
    /\ mi.tag = "Ok"
    /\ mres.tag \in {"None", "Err"}
    /\ mi.heap = {}

\* The last next() returned an error and sources have entries left.
MergerFailedBeforeEnd ==
    /\ mi.tag = "Ok"
    /\ mres.tag = "Err"
    /\ mi.heap # {}

\* C35: once next() has returned nothing, or an error while no source has
\* entries left, a later next() returns nothing, invokes no merge and yields
\* no entry; after an error with entries left, the next() that follows takes
\* up the least remaining key as usual.
C35_AfterErrorOrEnd ==
    [][/\ MergerEnded =>
            /\ mres'.tag = "None"
            /\ mcalls' = mcalls
            /\ mout' = mout
       /\ MergerFailedBeforeEnd =>
            /\ mres'.tag \in {"Some", "Err"}
            /\ mres'.tag = "Some" =>
                  /\ mout' = Append(mout, mout'[Len(mout')])
                  /\ \E e \in TopEntries(mi.heap) : mout'[Len(mout')].key = e.key]_vars

\* After the error of a merge that took the last entries, a next() invoked
\* merge without values and yielded what it returned under the empty key,
\* which no source holds.
C35_YieldedAfterEnd ==
    /\ mi.tag = "Ok" /\ mi.heap = {}
    /\ mres.tag = "Some"
    /\ Len(mcalls) = 2
    /\ ~mcalls[1].ok
    /\ mcalls[2].vals = << >>
    /\ Len(mout) = 1
    /\ mout[1].key = << >>
    /\ << >> \notin AllSourceKeys

(***************************************************************************)
(* The order of the values a spill gives to merge                          *)
(***************************************************************************)
\* The values of the entries of es that have the key, in the order of es
ValuesInOrder(es, key) ==
    [j \in 1..Len(ValuesFor(es, key)) |-> ValuesFor(es, key)[j].val]

\* C36: when a spill groups buffered entries with equal keys, the values
\* given to merge(key, values) are in the order in which they were inserted.
\* The buffer of the spill is the buffer before the call, with the entry of
\* the call when the call is insert.
C36_SpillKeepsInsertionOrder ==
    [][\A i \in 1..Len(sres'.calls) :
          sres'.calls[i].vals =
             ValuesInOrder(IF slog' # slog
                           THEN Append(sorter.entries, slog'[Len(slog')])
                           ELSE sorter.entries,
                           sres'.calls[i].key)]_vars

\* Two entries of one key were inserted, the empty value first, and the
\* spill of into_iter gave merge the values in the other order.
C36_ValuesReordered ==
    /\ sres.call = "into_iter"
    /\ Len(slog) = 2
    /\ slog[1].key = slog[2].key
    /\ slog[1].val = << >> /\ slog[2].val = << 7 >>
    /\ Len(sres.calls) = 1
    /\ sres.calls[1].vals = << << 7 >>, << >> >>

(***************************************************************************)
(* The entries a sorter holds                                              *)
(***************************************************************************)
RECURSIVE ChunkEntries(_, _)
\* The entries of the chunks from chunk i on, as a Reader yields them
ChunkEntries(chunks, i) ==
    IF i > Len(chunks) THEN << >>
    ELSE ReadBack(chunks[i]).entries \o ChunkEntries(chunks, i + 1)

\* The entries in the buffer and in the chunks
HeldEntries == sorter.entries \o ChunkEntries(sorter.chunks, 1)

\* The bytes of the values that es has for the key
BytesFor(es, key) == Concat(ValuesInOrder(es, key), 1)

\* b is a rearrangement of a
Rearranged(a, b) ==
    /\ Len(a) = Len(b)
    /\ \A x \in { a[i] : i \in 1..Len(a) } \cup { b[i] : i \in 1..Len(b) } :
          Cardinality({ i \in 1..Len(a) : a[i] = x })
             = Cardinality({ i \in 1..Len(b) : b[i] = x })

\* C37: after inserts during which merge returned no error, every key that
\* was inserted is in the buffer or in the chunks and the bytes of its values
\* there are a rearrangement of the inserted ones, no other key is held, each
\* chunk has strictly ascending keys, and after a spill the buffer is empty
\* and entry_bytes is 0.
C37_SorterConservation ==
    (sres.call = "insert" /\ sres.clean) =>
        /\ { HeldEntries[i].key : i \in 1..Len(HeldEntries) }
              = { slog[i].key : i \in 1..Len(slog) }
        /\ \A i \in 1..Len(slog) :
              Rearranged(BytesFor(slog, slog[i].key), BytesFor(HeldEntries, slog[i].key))
        /\ \A c \in 1..Len(sorter.chunks) :
              /\ ReadBack(sorter.chunks[c]).ok
              /\ StrictlyAscending(ReadBack(sorter.chunks[c]).entries)
        /\ Spilled => sorter.entry_bytes = 0

\* An insert spilled entries whose keys are all different, so that merge was
\* not invoked: the buffer is empty, no chunk holds the entries and
\* entry_bytes still counts them.
C37_SpilledEntriesLost ==
    /\ sres.call = "insert" /\ sres.clean
    /\ Spilled
    /\ sres.calls = << >>
    /\ slog # << >>
    /\ HeldEntries = << >>
    /\ sorter.entry_bytes > 0

(***************************************************************************)
(* The properties of compress and decompress                               *)
(***************************************************************************)
\* The algorithm has a backend in the build: None always, Snappy, Zlib and
\* Zstd when their feature is compiled in.
HasBackend(features, type_) ==
    \/ type_ = CompressionNone
    \/ type_ = CompressionSnappy /\ "snappy" \in features
    \/ type_ = CompressionZlib /\ "zlib" \in features
    \/ type_ = CompressionZstd /\ "zstd" \in features

\* The bytes are what the algorithm's encoder writes for some payload.
WellFormedFor(type_, d) ==
    \/ type_ = CompressionNone
    \/ \E p \in CompressionPayloads : d = BackendEncode(type_, p)

\* C38: compress and decompress accept the same algorithms.  compress
\* succeeds exactly for the algorithms that have a backend in the build, None
\* returning the bytes as they are; decompress succeeds for them on the bytes
\* of that algorithm, None returning the bytes as they are; for an algorithm
\* without backend both fail; and what compress returned decompresses to the
\* bytes that were compressed.
C38_CompressionSymmetric ==
    fx.fn = "compression" =>
        /\ fx.call = "compress" =>
              /\ fx.res.tag = "Ok" <=> HasBackend(fx.features, fx.type_)
              /\ fx.type_ = CompressionNone => fx.res.bytes = fx.data
              /\ fx.back.tag # "None" => fx.back = [tag |-> "Ok", bytes |-> fx.data]
        /\ fx.call = "decompress" =>
              /\ fx.res.tag = "Ok" =>
                    HasBackend(fx.features, fx.type_)
              /\ (HasBackend(fx.features, fx.type_) /\ WellFormedFor(fx.type_, fx.data))
                    => fx.res.tag = "Ok"
              /\ fx.type_ = CompressionNone => fx.res.bytes = fx.data

\* In a build with the zstd feature, compress was asked for Zstd and
\* returned an error.
C38_ZstdNotCompressed ==
    /\ fx.fn = "compression"
    /\ fx.call = "compress"
    /\ fx.type_ = CompressionZstd
    /\ "zstd" \in fx.features
    /\ fx.res.tag = "Io"

=============================================================================
